---------------------------- MODULE Spec2Model ----------------------------
(***************************************************************************)
(* A model of the translation resolution pipeline of                       *)
(* better-laravel-translator: admission filter and directory scanner       *)
(* (scanner.ts), document loader and orchestrator (exporter.ts), namespace *)
(* extractor and merge engine (namespace.ts), pattern resolver and its     *)
(* cache (glob-resolver.ts).                                               *)
(*                                                                         *)
(* Strings are TLA+ strings, handled character by character with Len,      *)
(* SubSeq and \o, so that the string algorithms of the source (replace,    *)
(* endsWith, split, lastIndexOf, the locale regex) are computed as the     *)
(* code computes them.  Paths follow the POSIX flavour of node's path      *)
(* module.                                                                 *)
(***************************************************************************)
EXTENDS Integers, Sequences, FiniteSets, TLC

VARIABLES
    query,          \* SpecAdmit: the last isValidTranslationFile call and its result
    fs,             \* the filesystem: file path -> document
    config,         \* the options object handed to exportTranslations
    globCache,      \* glob-resolver.ts globCache: cache key -> resolved directories
    pc,             \* position of the running exportTranslations call
    pathsToScan,    \* exporter.ts `pathsToScan` of the running or last export
    todo,           \* allTranslationFiles not yet processed by the fold
    translations,   \* the store being folded (exporter.ts `translations`)
    step,           \* what the last fold iteration did
    prev,           \* the result of the previous completed export
    currentConfig   \* translator.ts `currentConfig`: locale, fallbackLocale, translations

vars == <<query, fs, config, globCache, pc, pathsToScan, todo, translations, step, prev,
          currentConfig>>

(***************************************************************************)
(* JavaScript string primitives.  Indices are 1-based; 0 plays the role of *)
(* JavaScript's -1 ("not found").                                          *)
(***************************************************************************)
Char(s, i) == SubSeq(s, i, i)

StartsWith(s, p) == Len(p) <= Len(s) /\ SubSeq(s, 1, Len(p)) = p

EndsWith(s, p) == Len(p) <= Len(s) /\ SubSeq(s, Len(s) - Len(p) + 1, Len(s)) = p

OccursAt(s, sub, i) == i >= 1 /\ i + Len(sub) - 1 <= Len(s) /\ SubSeq(s, i, i + Len(sub) - 1) = sub

RECURSIVE IndexFrom(_, _, _)
IndexFrom(s, sub, i) ==
    IF i + Len(sub) - 1 > Len(s) THEN 0
    ELSE IF OccursAt(s, sub, i) THEN i
    ELSE IndexFrom(s, sub, i + 1)

\* String.prototype.indexOf
IndexOf(s, sub) == IndexFrom(s, sub, 1)

RECURSIVE LastIndexFrom(_, _, _)
LastIndexFrom(s, sub, i) ==
    IF i < 1 THEN 0
    ELSE IF OccursAt(s, sub, i) THEN i
    ELSE LastIndexFrom(s, sub, i - 1)

\* String.prototype.lastIndexOf
LastIndexOf(s, sub) == LastIndexFrom(s, sub, Len(s) - Len(sub) + 1)

Includes(s, sub) == IndexOf(s, sub) # 0

\* String.prototype.replace(sub, rep) with a string pattern: the FIRST occurrence only
ReplaceAt(s, sub, rep, i) ==
    IF i = 0 THEN s
    ELSE SubSeq(s, 1, i - 1) \o rep \o SubSeq(s, i + Len(sub), Len(s))

ReplaceFirst(s, sub, rep) == ReplaceAt(s, sub, rep, IndexOf(s, sub))

\* String.prototype.split on any one of the separator characters in seps
\* ("a//b" gives <<"a", "", "b">>, "" gives <<"">>)
RECURSIVE SplitFrom(_, _, _, _)
SplitFrom(s, seps, i, cur) ==
    IF i > Len(s) THEN <<cur>>
    ELSE IF Char(s, i) \in seps THEN <<cur>> \o SplitFrom(s, seps, i + 1, "")
    ELSE SplitFrom(s, seps, i + 1, cur \o Char(s, i))

Split(s, seps) == SplitFrom(s, seps, 1, "")

\* Array.prototype.join
RECURSIVE JoinWith(_, _)
JoinWith(parts, glue) ==
    IF Len(parts) = 0 THEN ""
    ELSE IF Len(parts) = 1 THEN parts[1]
    ELSE parts[1] \o glue \o JoinWith(Tail(parts), glue)

\* s.replace(/^[/\\]+/, '')
RECURSIVE TrimLeadingSeps(_)
TrimLeadingSeps(s) ==
    IF Len(s) > 0 /\ Char(s, 1) \in {"/", "\\"} THEN TrimLeadingSeps(SubSeq(s, 2, Len(s))) ELSE s

\* s.replace(/[/\\]+$/, '')
RECURSIVE TrimTrailingSeps(_)
TrimTrailingSeps(s) ==
    IF Len(s) > 0 /\ Char(s, Len(s)) \in {"/", "\\"} THEN TrimTrailingSeps(SubSeq(s, 1, Len(s) - 1)) ELSE s

LowerChars == {"a", "b", "c", "d", "e", "f", "g", "h", "i", "j", "k", "l", "m",
               "n", "o", "p", "q", "r", "s", "t", "u", "v", "w", "x", "y", "z"}

UpperChars == {"A", "B", "C", "D", "E", "F", "G", "H", "I", "J", "K", "L", "M",
               "N", "O", "P", "Q", "R", "S", "T", "U", "V", "W", "X", "Y", "Z"}

(***************************************************************************)
(* node's path module, POSIX flavour.  The process working directory is    *)
(* Cwd.                                                                    *)
(***************************************************************************)
sep == "/"

Cwd == "/w"

\* the segments of a path with "", "." dropped and ".." resolved against what precedes
RECURSIVE NormSegs(_, _, _)
NormSegs(segs, acc, absolute) ==
    IF Len(segs) = 0 THEN acc
    ELSE LET h == Head(segs)
         IN  IF h = "" \/ h = "." THEN NormSegs(Tail(segs), acc, absolute)
             ELSE IF h = ".."
                  THEN IF Len(acc) > 0 /\ acc[Len(acc)] # ".."
                       THEN NormSegs(Tail(segs), SubSeq(acc, 1, Len(acc) - 1), absolute)
                       ELSE IF absolute THEN NormSegs(Tail(segs), acc, absolute)
                       ELSE NormSegs(Tail(segs), Append(acc, ".."), absolute)
             ELSE NormSegs(Tail(segs), Append(acc, h), absolute)

IsAbsolutePath(p) == StartsWith(p, "/")

\* normalize's result from the joined segments: the root and a trailing
\* separator are kept, an empty relative path is "."
NormalizeJoined(p, abs, body) ==
    IF abs THEN "/" \o body \o (IF Len(p) > 1 /\ EndsWith(p, "/") /\ body # "" THEN "/" ELSE "")
    ELSE IF body = "" THEN (IF EndsWith(p, "/") THEN "./" ELSE ".")
    ELSE body \o (IF EndsWith(p, "/") THEN "/" ELSE "")

\* path.normalize
normalize(p) ==
    NormalizeJoined(p, IsAbsolutePath(p),
                    JoinWith(NormSegs(Split(p, {"/"}), <<>>, IsAbsolutePath(p)), "/"))

\* path.resolve(p): absolute, normalized, no trailing separator
resolve(p) ==
    "/" \o JoinWith(NormSegs(Split(IF IsAbsolutePath(p) THEN p ELSE Cwd \o "/" \o p, {"/"}),
                             <<>>, TRUE), "/")

\* path.join(a, b)
join(a, b) == normalize(a \o "/" \o b)

RECURSIVE CommonPrefixLen(_, _)
CommonPrefixLen(a, b) ==
    IF Len(a) = 0 \/ Len(b) = 0 \/ Head(a) # Head(b) THEN 0
    ELSE 1 + CommonPrefixLen(Tail(a), Tail(b))

\* the way from segments f to segments t that share their first c segments
RelativeSegs(f, t, c) == [i \in 1..(Len(f) - c) |-> ".."] \o SubSeq(t, c + 1, Len(t))

RelativeBetween(f, t) == JoinWith(RelativeSegs(f, t, CommonPrefixLen(f, t)), "/")

\* path.relative(from, to)
relative(from, to) ==
    RelativeBetween(NormSegs(Split(resolve(from), {"/"}), <<>>, TRUE),
                    NormSegs(Split(resolve(to), {"/"}), <<>>, TRUE))

(***************************************************************************)
(* scanner.ts: the admission filter                                        *)
(***************************************************************************)
\* LOCALE_REGEX with the closing anchor forgotten: /^[a-z]{2}(_[A-Z]{2})?/
LOCALE_REGEX_Unanchored(s) ==
    /\ Len(s) >= 2
    /\ Char(s, 1) \in LowerChars
    /\ Char(s, 2) \in LowerChars

\* LOCALE_REGEX.test(s) for /^[a-z]{2}(_[A-Z]{2})?$/
LOCALE_REGEX(s) ==
    /\ Len(s) >= 2
    /\ Char(s, 1) \in LowerChars
    /\ Char(s, 2) \in LowerChars
    /\ \/ Len(s) = 2
       \/ /\ Len(s) = 5
          /\ Char(s, 3) = "_"
          /\ Char(s, 4) \in UpperChars
          /\ Char(s, 5) \in UpperChars

\* the two checks of isValidTranslationFile on parts = relativePath.split(sep)
AdmitsParts(filePath, parts) ==
    IF EndsWith(filePath, ".json")
    THEN Len(parts) = 1 /\ LOCALE_REGEX(ReplaceFirst(parts[1], ".json", ""))
    ELSE IF EndsWith(filePath, ".php")
    THEN Len(parts) >= 2 /\ LOCALE_REGEX(parts[1])
    ELSE FALSE

\* the checks with a JSON file judged by its name alone, at any depth
AdmitsParts_AnyDepth(filePath, parts) ==
    IF EndsWith(filePath, ".json")
    THEN LOCALE_REGEX(ReplaceFirst(parts[Len(parts)], ".json", ""))
    ELSE IF EndsWith(filePath, ".php")
    THEN Len(parts) >= 2 /\ LOCALE_REGEX(parts[1])
    ELSE FALSE

\* isValidTranslationFile judging a JSON file by its name alone, at any depth
isValidTranslationFile_AnyDepth(filePath, langPath) ==
    AdmitsParts_AnyDepth(filePath, Split(relative(langPath, filePath), {sep}))

isValidTranslationFile(filePath, langPath) ==
    AdmitsParts(filePath, Split(relative(langPath, filePath), {sep}))

(***************************************************************************)
(* JavaScript values.  Every value is a record tagged with its kind:       *)
(*   object  - val: a function from property names to values               *)
(*   array   - val: the elements, own: the non-index own properties        *)
(*   string / number / boolean - val: the primitive                        *)
(*   null, undefined                                                       *)
(***************************************************************************)
Obj(f)  == [kind |-> "object", val |-> f]

Arr(xs) == [kind |-> "array", val |-> xs, own |-> <<>>]

Str(s)  == [kind |-> "string", val |-> s]

Num(n)  == [kind |-> "number", val |-> n]

Null == [kind |-> "null"]

Undefined == [kind |-> "undefined"]

EmptyObj == Obj(<<>>)

\* a one-property object literal { [k]: v }
Prop(k, v) == Obj([x \in {k} |-> v])

\* !value is false
Truthy(v) ==
    CASE v.kind = "undefined" -> FALSE
      [] v.kind = "null"      -> FALSE
      [] v.kind = "string"    -> v.val # ""
      [] v.kind = "number"    -> v.val # 0
      [] v.kind = "boolean"   -> v.val
      [] OTHER                -> TRUE

IsPrimitive(v) == v.kind \in {"string", "number", "boolean"}

Digits == <<"0", "1", "2", "3", "4", "5", "6", "7", "8", "9">>

\* the decimal text of a small index
RECURSIVE NatToStr(_)
NatToStr(n) == IF n < 10 THEN Digits[n + 1] ELSE NatToStr(n \div 10) \o Digits[(n % 10) + 1]

\* the own enumerable properties of a value, as a function name -> value
OwnProps(v) ==
    CASE v.kind = "object" -> v.val
      [] v.kind = "array"  ->
            LET idx == {NatToStr(i - 1) : i \in 1..Len(v.val)}
            IN  [k \in idx \cup DOMAIN v.own |->
                    IF k \in DOMAIN v.own /\ k \notin idx THEN v.own[k]
                    ELSE v.val[(CHOOSE i \in 1..Len(v.val) : NatToStr(i - 1) = k)]]
      [] v.kind = "string" ->
            [k \in {NatToStr(i - 1) : i \in 1..Len(v.val)} |->
                Str(Char(v.val, (CHOOSE i \in 1..Len(v.val) : NatToStr(i - 1) = k)))]
      [] OTHER -> <<>>

Lookup(props, k) == IF k \in DOMAIN props THEN props[k] ELSE Undefined

\* value[key] (never applied to null or undefined by the modelled code)
Get(v, k) == Lookup(OwnProps(v), k)

\* value[key] = x on an object or on an array; a primitive receiver is a
\* TypeError in strict mode and is handled by the caller
Put(v, k, x) ==
    IF v.kind = "array"
    THEN [v EXCEPT !.own = [j \in DOMAIN v.own \cup {k} |-> IF j = k THEN x ELSE v.own[j]]]
    ELSE Obj([j \in DOMAIN v.val \cup {k} |-> IF j = k THEN x ELSE v.val[j]])

\* the character order of JavaScript's default sort and of Object.entries on
\* the characters the model uses (ASCII)
AsciiOrder == "*-./0123456789?ABCDEFGHIJKLMNOPQRSTUVWXYZ[\\]_abcdefghijklmnopqrstuvwxyz{}"

CharCode(c) == IndexOf(AsciiOrder, c)

RECURSIVE StrLess(_, _)
StrLess(a, b) ==
    IF Len(b) = 0 THEN FALSE
    ELSE IF Len(a) = 0 THEN TRUE
    ELSE IF Char(a, 1) = Char(b, 1) THEN StrLess(SubSeq(a, 2, Len(a)), SubSeq(b, 2, Len(b)))
    ELSE CharCode(Char(a, 1)) < CharCode(Char(b, 1))

\* [...set].sort()
RECURSIVE SortStrings(_)
SortStrings(S) ==
    IF S = {} THEN <<>>
    ELSE LET m == CHOOSE x \in S : \A y \in S : x = y \/ StrLess(x, y)
         IN  <<m>> \o SortStrings(S \ {m})

Range(xs) == {xs[i] : i \in DOMAIN xs}

(***************************************************************************)
(* namespace.ts: the merge engine                                          *)
(***************************************************************************)
isObject(value) == value.kind = "object"

RECURSIVE deepMerge(_, _)
deepMerge(target, source) ==
    IF ~isObject(target) \/ ~isObject(source) THEN source
    ELSE Obj([key \in DOMAIN target.val \cup DOMAIN source.val |->
                IF key \notin DOMAIN source.val THEN target.val[key]
                ELSE IF isObject(source.val[key]) /\ isObject(Get(target, key))
                     THEN deepMerge(target.val[key], source.val[key])
                     ELSE source.val[key]])

\* value || fallback
TruthyOr(value, fallback) == IF Truthy(value) THEN value ELSE fallback

\* result[locale].modules[moduleName] after the loop body for moduleName
MergedModule(m, entries, moduleName) ==
    deepMerge(TruthyOr(Get(m, moduleName), EmptyObj), entries[moduleName])

\* the modules object m after the for-of loop over Object.entries(newTranslations.modules)
AssignModules(m, entries) ==
    IF m.kind = "array"
    THEN [m EXCEPT !.own = [k \in DOMAIN m.own \cup DOMAIN entries |->
             IF k \in DOMAIN entries THEN MergedModule(m, entries, k) ELSE m.own[k]]]
    ELSE Obj([k \in DOMAIN m.val \cup DOMAIN entries |->
             IF k \in DOMAIN entries THEN MergedModule(m, entries, k) ELSE m.val[k]])

\* the loop on L1 (L with modules ensured) whose modules value is m; assigning
\* a property of a primitive m is a TypeError
MergeEntries(L, L1, m, entries) ==
    IF DOMAIN entries = {} THEN [threw |-> FALSE, value |-> L1]
    ELSE IF IsPrimitive(m) THEN [threw |-> TRUE, value |-> L]
    ELSE [threw |-> FALSE, value |-> Put(L1, "modules", AssignModules(m, entries))]

MergeEnsured(L, L1, entries) == MergeEntries(L, L1, Get(L1, "modules"), entries)

\* The `if (newTranslations.modules)` branch applied to the per-locale value L
\* (result[locale], the very object existingTranslations[locale] refers to):
\* it assigns L.modules and L.modules[moduleName] in place.  Assigning a
\* property of a primitive is a TypeError (ES modules are strict code).
\* Yields [threw, value]: value is L after the assignments.
MergeModules(L, newModules) ==
    IF Truthy(Get(L, "modules")) THEN MergeEnsured(L, L, OwnProps(newModules))
    ELSE IF IsPrimitive(L) THEN [threw |-> TRUE, value |-> L]
    ELSE MergeEnsured(L, Put(L, "modules", EmptyObj), OwnProps(newModules))

\* what the modules branch leaves: r is MergeModules' outcome, had tells whether
\* the locale was in existingTranslations before the call
ModulesBranch(existingTranslations, locale, had, r) ==
    IF r.threw
    THEN [threw |-> TRUE, result |-> Undefined, existingAfter |-> existingTranslations]
    ELSE [threw |-> FALSE,
          result |-> Put(existingTranslations, locale, r.value),
          existingAfter |-> IF had THEN Put(existingTranslations, locale, r.value)
                            ELSE existingTranslations]

\* mergeNamespacedTranslations(existingTranslations, newTranslations, locale).
\* Yields [threw, result, existingAfter]: result is the returned store and
\* existingAfter is the argument store as the caller sees it after the call
\* (result is a shallow copy, so result[locale] and existingTranslations[locale]
\* are one object whenever the locale was already there).
mergeNamespacedTranslations(existingTranslations, newTranslations, locale) ==
    IF Truthy(Get(newTranslations, "modules"))
    THEN ModulesBranch(existingTranslations, locale,
                       Truthy(Get(existingTranslations, locale)),
                       MergeModules(TruthyOr(Get(existingTranslations, locale), EmptyObj),
                                    Get(newTranslations, "modules")))
    ELSE [threw |-> FALSE,
          result |-> Put(existingTranslations, locale,
                         deepMerge(TruthyOr(Get(existingTranslations, locale), EmptyObj),
                                   newTranslations)),
          existingAfter |-> existingTranslations]

\* applyNamespacing(translations, moduleName, namespaceModules); moduleName is
\* Null or a Str
applyNamespacing(trans, moduleName, namespaceModules) ==
    IF ~namespaceModules \/ ~Truthy(moduleName) THEN trans
    ELSE Prop("modules", Prop(moduleName.val, trans))

(***************************************************************************)
(* namespace.ts: the namespace extractor                                   *)
(***************************************************************************)
\* the first index that is not 0, 0 when there is none
FirstFound(indices) ==
    IF indices[1] # 0 THEN indices[1]
    ELSE IF indices[2] # 0 THEN indices[2]
    ELSE indices[3]

\* lastIndexOf(sep + 'lang'), then of '/lang', then of '\\lang'
LangIndex(normalizedFullPath) ==
    FirstFound(<<LastIndexOf(normalizedFullPath, sep \o "lang"),
                 LastIndexOf(normalizedFullPath, "/lang"),
                 LastIndexOf(normalizedFullPath, "\\lang")>>)

\* path.isAbsolute(baseDir) (a drive-letter prefix counts, as in the source)
IsAbsoluteBase(baseDir) ==
    \/ StartsWith(baseDir, sep)
    \/ /\ Len(baseDir) >= 2
       /\ Char(baseDir, 1) \in LowerChars \cup UpperChars
       /\ Char(baseDir, 2) = ":"

AbsoluteBase(baseDir) == IF IsAbsoluteBase(baseDir) THEN baseDir ELSE normalize(resolve(baseDir))

\* baseDir: the pattern up to its first *, trailing separators dropped, made absolute
BaseDir(normalizedBasePath) ==
    AbsoluteBase(IF Includes(normalizedBasePath, "*")
                 THEN TrimTrailingSeps(Split(normalizedBasePath, {"*"})[1])
                 ELSE normalizedBasePath)

NonEmptyOrNull(modulePath) == IF modulePath = "" THEN Null ELSE Str(modulePath)

\* the module path between baseDir and beforeLang
ModuleBetween(beforeLang, baseDir) ==
    IF ~StartsWith(beforeLang, baseDir) THEN Null
    ELSE NonEmptyOrNull(TrimTrailingSeps(TrimLeadingSeps(
             SubSeq(beforeLang, Len(baseDir) + 1, Len(beforeLang)))))

ModuleBefore(normalizedFullPath, normalizedBasePath, langIndex) ==
    IF langIndex = 0 THEN Null
    ELSE ModuleBetween(SubSeq(normalizedFullPath, 1, langIndex - 1), BaseDir(normalizedBasePath))

ModuleOfNormalized(normalizedFullPath, normalizedBasePath) ==
    ModuleBefore(normalizedFullPath, normalizedBasePath, LangIndex(normalizedFullPath))

\* extractModuleName(fullPath, basePath): Null or Str(module name)
extractModuleName(fullPath, basePath) ==
    ModuleOfNormalized(normalize(fullPath), normalize(basePath))

(***************************************************************************)
(* The filesystem and the glob package.  A filesystem is a function from   *)
(* absolute file paths to documents; the directories are the proper        *)
(* ancestors of the files.  The glob package is an external dependency,    *)
(* modelled for literal segments, *, ?, ** and {a,b}.                      *)
(***************************************************************************)
PathSegs(p) == NormSegs(Split(p, {"/"}), <<>>, TRUE)

\* the proper ancestors of the path with segments segs
AncestorsOf(segs) == {"/" \o JoinWith(SubSeq(segs, 1, n), "/") : n \in 1..(Len(segs) - 1)}

DirsOf(files) == UNION {AncestorsOf(PathSegs(f)) : f \in files}

DiskOf(files, dirs) ==
    [files |-> files, dirs |-> dirs, segs |-> [p \in files \cup dirs |-> PathSegs(p)]]

\* the listing of a filesystem: its files, its directories and the segments of each
Disk(f) == DiskOf(DOMAIN f, DirsOf(DOMAIN f))

\* statSync(p).isDirectory(), false when p does not exist
IsDirectory(d, p) == resolve(p) \in d.dirs

\* the name under the directory with segments ds on the way to the file with segments gs
ChildOn(ds, gs) ==
    IF Len(gs) > Len(ds) /\ SubSeq(gs, 1, Len(ds)) = ds THEN {gs[Len(ds) + 1]} ELSE {}

ChildrenOf(d, ds) == UNION {ChildOn(ds, d.segs[g]) : g \in d.files}

\* readdirSync(dir): the names of the immediate children (dir must be a directory)
readdirSync(d, dir) == ChildrenOf(d, PathSegs(resolve(dir)))

\* one path segment against one pattern segment: * is any run of characters,
\* ? is one character
RECURSIVE WildMatch(_, _)
WildMatch(pat, s) ==
    IF pat = "" THEN s = ""
    ELSE IF Char(pat, 1) = "*"
         THEN \/ WildMatch(SubSeq(pat, 2, Len(pat)), s)
              \/ s # "" /\ WildMatch(pat, SubSeq(s, 2, Len(s)))
    ELSE /\ s # ""
         /\ Char(pat, 1) = "?" \/ Char(pat, 1) = Char(s, 1)
         /\ WildMatch(SubSeq(pat, 2, Len(pat)), SubSeq(s, 2, Len(s)))

\* a name starting with a dot is matched only by a pattern segment that starts
\* with one, unless dot files are matched like any other (option dot)
SegMatch(pat, s, dot) == WildMatch(pat, s) /\ (StartsWith(s, ".") => (dot \/ StartsWith(pat, ".")))

RECURSIVE MatchSegs(_, _, _)
MatchSegs(pats, segs, dot) ==
    IF Len(pats) = 0 THEN Len(segs) = 0
    ELSE IF Head(pats) = "**"
         THEN \/ MatchSegs(Tail(pats), segs, dot)
              \/ /\ Len(segs) > 0
                 /\ dot \/ ~StartsWith(Head(segs), ".")
                 /\ MatchSegs(pats, Tail(segs), dot)
    ELSE /\ Len(segs) > 0
         /\ SegMatch(Head(pats), Head(segs), dot)
         /\ MatchSegs(Tail(pats), Tail(segs), dot)

\* {a,b} alternatives, leftmost group first (groups are not nested)
RECURSIVE BraceExpand(_)
BraceExpand(p) ==
    LET open  == IndexOf(p, "{")
        rest  == SubSeq(p, open + 1, Len(p))
        close == IndexOf(rest, "}")
        alts  == Split(SubSeq(rest, 1, close - 1), {","})
    IN  IF open = 0 \/ close = 0 THEN {p}
        ELSE UNION {BraceExpand(SubSeq(p, 1, open - 1) \o alts[i] \o SubSeq(rest, close + 1, Len(rest)))
                    : i \in DOMAIN alts}

\* the pattern's segments, made absolute against cwd when the pattern is relative
PatternSegs(pattern, cwd) ==
    IF IsAbsolutePath(pattern) THEN NormSegs(Split(pattern, {"/"}), <<>>, TRUE)
    ELSE PathSegs(resolve(cwd)) \o NormSegs(Split(pattern, {"/"}), <<>>, FALSE)

\* the segment lists a pattern stands for after brace expansion
PatternAlternatives(pattern, cwd) == {PatternSegs(q, cwd) : q \in BraceExpand(pattern)}

\* the glob engine rejects a pattern it cannot parse (an unclosed character class)
GlobThrows(pattern) == Includes(pattern, "[") /\ ~Includes(pattern, "]")

\* glob.sync(pattern, {cwd, ignore, absolute: true, maxDepth}): the absolute
\* paths of the files and directories that match, as a set; depth is Undefined
\* when the caller gives no maxDepth.  The ignore patterns are matched with
\* dot files included, and one that ends in ** covers the directory itself
globSync(d, pattern, cwd, ignore, depth) ==
    LET wanted  == PatternAlternatives(pattern, cwd)
        ignored == UNION {PatternAlternatives(ignore[i], cwd) : i \in DOMAIN ignore}
        base    == Len(PathSegs(resolve(cwd)))
        hit(e)  == LET es == d.segs[e]
                   IN  /\ \E ps \in wanted : MatchSegs(ps, es, FALSE)
                       /\ \A ps \in ignored : ~MatchSegs(ps, es, TRUE)
                       /\ depth.kind = "undefined" \/ Len(es) - base <= depth.val
    IN  {e \in d.files \cup d.dirs : hit(e)}

(***************************************************************************)
(* glob-resolver.ts: the pattern resolver and its cache                    *)
(***************************************************************************)
DEFAULT_EXCLUDES == <<"**/node_modules/**", "**/vendor/**", "**/.git/**">>

maxDepth == 10

containsGlobCharacters(pattern) ==
    \E i \in 1..Len(pattern) : Char(pattern, i) \in {"*", "?", "{", "}", "[", "]", "(", ")"}

\* ResolveOne expanding the pattern with no ignore list
ResolveOne_NoIgnore(d, pattern, excludePaths) ==
    IF ~containsGlobCharacters(pattern)
    THEN IF IsDirectory(d, pattern) THEN <<resolve(pattern)>> ELSE <<>>
    ELSE IF GlobThrows(pattern) THEN <<>>
    ELSE SortStrings({m \in globSync(d, pattern, Cwd, <<>>, Num(maxDepth)) : IsDirectory(d, m)})

\* what one pattern pushes to `resolved`, in order
ResolveOne(d, pattern, excludePaths) ==
    IF ~containsGlobCharacters(pattern)
    THEN IF IsDirectory(d, pattern) THEN <<resolve(pattern)>> ELSE <<>>
    ELSE IF GlobThrows(pattern) THEN <<>>
    ELSE SortStrings({m \in globSync(d, pattern, Cwd, excludePaths, Num(maxDepth)) : IsDirectory(d, m)})

\* `resolved` after the loop over patterns
RECURSIVE ResolvedBy(_, _, _)
ResolvedBy(d, patterns, excludePaths) ==
    IF Len(patterns) = 0 THEN <<>>
    ELSE ResolveOne(d, Head(patterns), excludePaths) \o ResolvedBy(d, Tail(patterns), excludePaths)

\* [...new Set(xs)]: the first occurrence of every element, in order
RECURSIVE SetOrder(_, _)
SetOrder(xs, seen) ==
    IF Len(xs) = 0 THEN <<>>
    ELSE IF Head(xs) \in seen THEN SetOrder(Tail(xs), seen)
    ELSE <<Head(xs)>> \o SetOrder(Tail(xs), seen \cup {Head(xs)})

\* x put before the first element of the sorted xs that is greater than it
RECURSIVE InsertSorted(_, _)
InsertSorted(x, xs) ==
    IF Len(xs) = 0 THEN <<x>>
    ELSE IF StrLess(x, Head(xs)) THEN <<x>> \o xs
    ELSE <<Head(xs)>> \o InsertSorted(x, Tail(xs))

\* Array.prototype.sort() with the default comparison
RECURSIVE SortArray(_)
SortArray(xs) == IF Len(xs) = 0 THEN <<>> ELSE InsertSorted(Head(xs), SortArray(Tail(xs)))

\* options.excludePaths, DEFAULT_EXCLUDES when it is undefined
ExcludesOf(options) ==
    IF options.excludePaths.kind = "undefined" THEN DEFAULT_EXCLUDES ELSE options.excludePaths.val

\* resolveGlobPatterns returning resolved.sort(), the Set forgotten
resolveGlobPatterns_NoSet(d, patterns, options) ==
    SortArray(ResolvedBy(d, patterns, ExcludesOf(options)))

\* resolveGlobPatterns(patterns, options); options.excludePaths is Undefined or
\* [kind |-> "list", val |-> <<...>>]
resolveGlobPatterns(d, patterns, options) ==
    SortArray(SetOrder(ResolvedBy(d, patterns, ExcludesOf(options)), {}))

\* JSON.stringify of a string
RECURSIVE JsonEscape(_)
JsonEscape(s) ==
    IF s = "" THEN ""
    ELSE (IF Char(s, 1) \in {"\"", "\\"} THEN "\\" ELSE "") \o Char(s, 1) \o JsonEscape(SubSeq(s, 2, Len(s)))

JsonString(s) == "\"" \o JsonEscape(s) \o "\""

JsonStringArray(xs) == "[" \o JoinWith([i \in DOMAIN xs |-> JsonString(xs[i])], ",") \o "]"

\* the cache key made of the patterns alone
CacheKey_PatternsOnly(patterns, options) ==
    "{\"patterns\":" \o JsonStringArray(patterns) \o "}"

\* JSON.stringify({ patterns, options }): an undefined excludePaths is left out
CacheKey(patterns, options) ==
    "{\"patterns\":" \o JsonStringArray(patterns) \o ",\"options\":{"
        \o (IF options.excludePaths.kind = "undefined" THEN ""
            ELSE "\"excludePaths\":" \o JsonStringArray(options.excludePaths.val))
        \o "}}"

\* the cache with `entry` stored under cacheKey
CacheSet(cache, cacheKey, entry) ==
    [k \in DOMAIN cache \cup {cacheKey} |-> IF k = cacheKey THEN entry ELSE cache[k]]

\* CachedOr answering from the cache whatever useCache says
CachedOr_AlwaysRead(cache, cacheKey, useCache, result) ==
    IF cacheKey \in DOMAIN cache
    THEN [result |-> cache[cacheKey], cache |-> cache]
    ELSE [result |-> result,
          cache  |-> IF useCache THEN CacheSet(cache, cacheKey, result) ELSE cache]

\* the cached entry when there is one, else `result`, stored when caching is on
CachedOr(cache, cacheKey, useCache, result) ==
    IF useCache /\ cacheKey \in DOMAIN cache
    THEN [result |-> cache[cacheKey], cache |-> cache]
    ELSE [result |-> result,
          cache  |-> IF useCache THEN CacheSet(cache, cacheKey, result) ELSE cache]

\* CachedOr storing the entry before `resolved` is filled
CachedOr_EarlySet(cache, cacheKey, useCache, result) ==
    IF useCache /\ cacheKey \in DOMAIN cache
    THEN [result |-> cache[cacheKey], cache |-> cache]
    ELSE [result |-> result,
          cache  |-> IF useCache THEN CacheSet(cache, cacheKey, <<>>) ELSE cache]

\* resolveGlobPatternsWithCache storing the entry before `resolved` is filled
resolveGlobPatternsWithCache_EarlySet(d, cache, patterns, options, useCache) ==
    CachedOr_EarlySet(cache, CacheKey(patterns, options), useCache,
                      resolveGlobPatterns(d, patterns, options))

\* resolveGlobPatternsWithCache(patterns, options, useCache) on cache `cache`:
\* [result, cache] with the returned directories and the cache afterwards
resolveGlobPatternsWithCache(d, cache, patterns, options, useCache) ==
    CachedOr(cache, CacheKey(patterns, options), useCache,
             resolveGlobPatterns(d, patterns, options))

(***************************************************************************)
(* scanner.ts: the directory scanner.  readdirSync and glob.sync return    *)
(* their entries in name order.                                            *)
(***************************************************************************)
\* options.locales is Undefined or [kind |-> "list", val |-> <<...>>]
LocaleAllowed(allowedLocales, locale) ==
    allowedLocales.kind = "undefined" \/ locale \in Range(allowedLocales.val)

PhpOf(locale, phpFiles) ==
    [i \in DOMAIN phpFiles |-> [path |-> phpFiles[i], locale |-> locale, type |-> "php"]]

\* the descriptors of the PHP files of the locale directories, in order
RECURSIVE PhpDescriptors(_, _, _)
PhpDescriptors(d, langPath, localeDirs) ==
    IF Len(localeDirs) = 0 THEN <<>>
    ELSE PhpOf(Head(localeDirs),
               SortStrings(globSync(d, "**/*.php", join(langPath, Head(localeDirs)),
                                    <<>>, Undefined)))
             \o PhpDescriptors(d, langPath, Tail(localeDirs))

\* entries that are directories named like a locale and allowed
LocaleDirs(d, langPath, options, entries) ==
    SelectSeq(SelectSeq(entries,
                        LAMBDA entry : IsDirectory(d, join(langPath, entry)) /\ LOCALE_REGEX(entry)),
              LAMBDA locale : LocaleAllowed(options.locales, locale))

\* IsAllowedLocale with no allowlist test
IsAllowedLocale_NoList(options, locale) == LOCALE_REGEX(locale)

IsAllowedLocale(options, locale) == LOCALE_REGEX(locale) /\ LocaleAllowed(options.locales, locale)

\* entries named <locale>.json for an allowed locale
JsonFiles(options, entries) ==
    SelectSeq(entries, LAMBDA file : /\ EndsWith(file, ".json")
                                     /\ IsAllowedLocale(options, ReplaceFirst(file, ".json", "")))

\* every entry named *.json whose stem is allowed, locale-like or not
JsonFiles_AnyName(options, entries) ==
    SelectSeq(entries, LAMBDA file : /\ EndsWith(file, ".json")
                                     /\ LocaleAllowed(options.locales, ReplaceFirst(file, ".json", "")))

JsonDescriptors(langPath, jsonFiles) ==
    [i \in DOMAIN jsonFiles |->
        [path   |-> join(langPath, jsonFiles[i]),
         locale |-> ReplaceFirst(jsonFiles[i], ".json", ""),
         type   |-> "json"]]

\* the body of the try block on entries = readdirSync(langPath)
ScanEntries(d, langPath, options, entries) ==
    (IF options.includePhp
     THEN PhpDescriptors(d, langPath, LocaleDirs(d, langPath, options, entries))
     ELSE <<>>)
    \o (IF options.includeJson
        THEN JsonDescriptors(langPath, JsonFiles(options, entries))
        ELSE <<>>)

\* the body with every root-level .json entry taken, whatever its name
ScanEntries_AnyJson(d, langPath, options, entries) ==
    (IF options.includePhp
     THEN PhpDescriptors(d, langPath, LocaleDirs(d, langPath, options, entries))
     ELSE <<>>)
    \o (IF options.includeJson
        THEN JsonDescriptors(langPath, JsonFiles_AnyName(options, entries))
        ELSE <<>>)

\* scanDirectory taking every root-level .json entry, whatever its name
scanDirectory_AnyJson(d, langPath, options) ==
    IF ~IsDirectory(d, langPath) THEN <<>>
    ELSE ScanEntries_AnyJson(d, langPath, options, SortStrings(readdirSync(d, langPath)))

\* scanDirectory(langPath, options) on the filesystem listed by d; readdirSync
\* throws on a root that is no directory and the catch returns no descriptor
scanDirectory(d, langPath, options) ==
    IF ~IsDirectory(d, langPath) THEN <<>>
    ELSE ScanEntries(d, langPath, options, SortStrings(readdirSync(d, langPath)))

(***************************************************************************)
(* exporter.ts: the document loader.  A document is what its bytes are to  *)
(* the two parsers (JSON.parse and php-parser, both external):             *)
(*   json       - JSON text of `value`; to php-parser, inline text         *)
(*   php        - PHP source whose top-level statements are `children`     *)
(*   garbage    - text neither parser accepts                              *)
(*   unreadable - readFileSync throws (a directory, no permission)         *)
(* AST nodes are records tagged node |-> TRUE, with php-parser's `kind`.   *)
(***************************************************************************)
JsonDoc(v) == [form |-> "json", value |-> v]

PhpDoc(children) == [form |-> "php", children |-> children]

Garbage == [form |-> "garbage"]

Unreadable == [form |-> "unreadable"]

PString(s) == [node |-> TRUE, kind |-> "string", value |-> Str(s)]

PEntry(k, v) == [node |-> TRUE, kind |-> "entry", key |-> k, value |-> v]

PArray(items) == [node |-> TRUE, kind |-> "array", items |-> items]

PBin(type, l, r) == [node |-> TRUE, kind |-> "bin", type |-> type, left |-> l, right |-> r]

PReturn(expr) == [node |-> TRUE, kind |-> "return", expr |-> expr]

\* `return [ 'k' => 'v', ... ];` for a sequence of <<key, node>> pairs
PhpReturning(pairs) ==
    PhpDoc(<<PReturn(PArray([i \in DOMAIN pairs |-> PEntry(PString(pairs[i][1]), pairs[i][2])]))>>)

IsNode(x) == "node" \in DOMAIN x

\* node.field, Undefined when the node has no such field
Field(n, f) == IF f \in DOMAIN n THEN n[f] ELSE Undefined

\* String(value)
RECURSIVE JsToString(_)
JsToString(v) ==
    CASE v.kind = "string"    -> v.val
      [] v.kind = "number"    -> NatToStr(v.val)
      [] v.kind = "boolean"   -> IF v.val THEN "true" ELSE "false"
      [] v.kind = "null"      -> "null"
      [] v.kind = "undefined" -> "undefined"
      [] v.kind = "array"     -> JoinWith([i \in DOMAIN v.val |->
                                    IF v.val[i].kind \in {"null", "undefined"} THEN ""
                                    ELSE JsToString(v.val[i])], ",")
      [] OTHER                -> "[object Object]"

\* a + b
JsAdd(a, b) ==
    IF a.kind \in {"number", "boolean", "null"} /\ b.kind \in {"number", "boolean", "null"}
    THEN LET n(x) == CASE x.kind = "number" -> x.val
                       [] x.kind = "boolean" -> (IF x.val THEN 1 ELSE 0)
                       [] OTHER -> 0
         IN  Num(n(a) + n(b))
    ELSE Str(JsToString(a) \o JsToString(b))

\* Object.assign({}, acc, val), folded over the parsed items from the left
RECURSIVE AssignAll(_, _)
AssignAll(acc, vals) ==
    IF Len(vals) = 0 THEN Obj(acc)
    ELSE LET p == OwnProps(Head(vals))
         IN  AssignAll([k \in DOMAIN acc \cup DOMAIN p |-> IF k \in DOMAIN p THEN p[k] ELSE acc[k]],
                       Tail(vals))

RECURSIVE parsePhpExpression(_)
parsePhpExpression(expr) ==
    IF ~IsNode(expr) THEN Null
    ELSE CASE expr.kind \in {"string", "number", "boolean"} -> expr.value
           [] expr.kind = "array" ->
                LET items == [i \in DOMAIN expr.items |-> parsePhpExpression(expr.items[i])]
                IN  IF \A i \in DOMAIN expr.items : Field(expr.items[i], "key").kind # "null"
                    THEN AssignAll(<<>>, items)
                    ELSE Arr(items)
           [] expr.kind = "bin" ->
                IF expr.type = "."
                THEN JsAdd(parsePhpExpression(expr.left), parsePhpExpression(expr.right))
                ELSE Null
           [] OTHER ->
                IF IsNode(Field(expr, "key"))
                THEN Prop(JsToString(parsePhpExpression(expr.key)), parsePhpExpression(expr.value))
                ELSE IF "value" \in DOMAIN expr THEN parsePhpExpression(expr.value)
                ELSE Null

\* what parsePhpFile returns for the first return statement found (Undefined when
\* there is none)
ParseReturn(returnStatement) ==
    IF ~IsNode(returnStatement) THEN Null
    ELSE IF ~IsNode(Field(returnStatement, "expr")) THEN Null
    ELSE IF returnStatement.expr.kind # "array" THEN Null
    ELSE parsePhpExpression(returnStatement.expr)

\* ast.children.find(child => child.kind === 'return')
FindReturn(returns) == IF Len(returns) = 0 THEN Undefined ELSE returns[1]

\* the top-level statements php-parser gives for a document: text without
\* <?php is one inline node
ChildrenOfDoc(doc) ==
    IF doc.form = "php" THEN doc.children ELSE <<[node |-> TRUE, kind |-> "inline"]>>

\* parsePhpFile(content, filename) on the document read
parsePhpFile(doc) ==
    IF doc.form = "garbage" THEN Null
    ELSE ParseReturn(FindReturn(SelectSeq(ChildrenOfDoc(doc), LAMBDA child : child.kind = "return")))

\* the try block of loadTranslationFile on the file at absolute path p
LoadAt(f, p, type) ==
    IF p \notin DOMAIN f THEN Null
    ELSE IF f[p].form = "unreadable" THEN Null
    ELSE IF type = "json" THEN (IF f[p].form = "json" THEN f[p].value ELSE Null)
    ELSE parsePhpFile(f[p])

\* loadTranslationFile(file) on filesystem f: the parsed content, Null on any failure
loadTranslationFile(f, file) == LoadAt(f, resolve(file.path), file.type)

\* the nested object { d1: { d2: { ... { fileName: content } } } }
RECURSIVE Nest(_, _)
Nest(parts, content) ==
    IF Len(parts) = 1 THEN Prop(parts[1], content)
    ELSE Prop(Head(parts), Nest(Tail(parts), content))

\* s.replace(/\.php$/, '')
StripPhp(s) == IF EndsWith(s, ".php") THEN SubSeq(s, 1, Len(s) - 4) ELSE s

\* the PHP branch with the whole relative path as one key
NestUnder_Flat(relativePath, content) == Prop(relativePath, content)

\* the PHP branch of buildFileTranslations on relativePath (extension stripped)
NestUnder(relativePath, content) ==
    IF ~Includes(relativePath, "/") /\ ~Includes(relativePath, "\\")
    THEN Prop(relativePath, content)
    ELSE Nest(Split(relativePath, {"/", "\\"}), content)

PhpRelativePath(file) == StripPhp(relative(join(file.basePath, file.locale), file.path))

\* buildFileTranslations keeping the two formats apart, { php: ... } / { json: ... }
buildFileTranslations_ByFormat(file, content) ==
    IF file.type = "json" THEN Prop("json", content)
    ELSE Prop("php", Prop(PhpRelativePath(file), content))

buildFileTranslations(file, content) ==
    IF file.type = "json" THEN content
    ELSE NestUnder(PhpRelativePath(file), content)

(***************************************************************************)
(* exporter.ts: exportTranslations, one action per phase: ExportStart      *)
(* (resolve the patterns and scan every root), FoldStep (one iteration of  *)
(* the loop over allTranslationFiles), ExportReturn.                       *)
(***************************************************************************)
NoList == Undefined

\* the directories one pattern resolved to, tagged with it, before those of the
\* patterns after it
Tagged(pattern, result, rest) ==
    [paths |-> [i \in DOMAIN result |-> [path |-> result[i], pattern |-> Str(pattern)]]
                   \o rest.paths,
     cache |-> rest.cache]

\* the directories the additional patterns resolve to, each tagged with its
\* pattern, and the cache after the calls: [paths, cache]
RECURSIVE ResolveAdditional(_, _, _, _, _)
RECURSIVE ResolveAfter(_, _, _, _, _)
ResolveAdditional(d, cache, patterns, excludePaths, useCache) ==
    IF Len(patterns) = 0 THEN [paths |-> <<>>, cache |-> cache]
    ELSE ResolveAfter(d, patterns, excludePaths, useCache,
                      resolveGlobPatternsWithCache(d, cache, <<Head(patterns)>>,
                                                   [excludePaths |-> excludePaths], useCache))

\* the rest of the forEach once the first pattern gave r
ResolveAfter(d, patterns, excludePaths, useCache, r) ==
    Tagged(Head(patterns), r.result,
           ResolveAdditional(d, r.cache, Tail(patterns), excludePaths, useCache))

\* files.map(file => ({ ...file, basePath: path, pattern }))
TagFound(found, root) ==
    [i \in DOMAIN found |->
        [path |-> found[i].path, locale |-> found[i].locale, type |-> found[i].type,
         basePath |-> root.path, pattern |-> root.pattern]]

\* allTranslationFiles: the descriptors of every root, in root order
RECURSIVE ScanAll(_, _, _)
ScanAll(d, roots, scanOptions) ==
    IF Len(roots) = 0 THEN <<>>
    ELSE TagFound(scanDirectory(d, Head(roots).path, scanOptions), Head(roots))
             \o ScanAll(d, Tail(roots), scanOptions)

NoStep == [op |-> "none"]

\* the scan loop over pathsToScan
ScanRoots(d, roots) ==
    /\ pathsToScan' = roots
    /\ todo' = ScanAll(d, roots,
                       [includeJson |-> config.includeJson,
                        includePhp  |-> config.includePhp,
                        locales     |-> config.locales])

\* after the additional patterns resolved to r
ScanResolved(d, r) ==
    /\ globCache' = r.cache
    /\ ScanRoots(d, <<[path |-> config.langPath, pattern |-> Undefined]>> \o r.paths)

ResolveAndScan(d) ==
    ScanResolved(d, ResolveAdditional(d, globCache, config.additionalLangPaths,
                                      config.excludePaths, config.NODE_ENV = "development"))

\* exportTranslations is called when no call is running and pc is in `from`
ExportStart(from) ==
    /\ pc \in from
    /\ ResolveAndScan(Disk(fs))
    /\ translations' = EmptyObj
    /\ pc' = "fold"
    /\ step' = NoStep
    /\ UNCHANGED <<query, fs, config, prev, currentConfig>>

\* the record of one iteration: what was loaded, built and merged
Outcome(store, file, content, moduleName, fileTranslations, namespacedTranslations, m) ==
    [op |-> "merge", file |-> file, content |-> content, threw |-> m.threw,
     moduleName |-> moduleName, fileTranslations |-> fileTranslations,
     contribution |-> namespacedTranslations,
     before |-> store, after |-> m.result, existingAfter |-> m.existingAfter]

MergeBuilt(store, file, content, moduleName, fileTranslations, namespacedTranslations) ==
    Outcome(store, file, content, moduleName, fileTranslations, namespacedTranslations,
            mergeNamespacedTranslations(store, namespacedTranslations, file.locale))

NamespaceBuilt(cfg, store, file, content, moduleName, fileTranslations) ==
    MergeBuilt(store, file, content, moduleName, fileTranslations,
               applyNamespacing(fileTranslations, moduleName, cfg.namespaceModules))

\* moduleName: extractModuleName only with namespacing on and a source pattern
ModuleNameFor(cfg, file) ==
    IF cfg.namespaceModules /\ Truthy(file.pattern)
    THEN extractModuleName(file.basePath, file.pattern.val)
    ELSE Null

\* the loop body merging an empty tree for a content that did not load
FoldLoaded_MergeEmpty(cfg, store, file, content) ==
    IF ~Truthy(content)
    THEN MergeBuilt(store, file, content, Null, EmptyObj, EmptyObj)
    ELSE NamespaceBuilt(cfg, store, file, content, ModuleNameFor(cfg, file),
                        buildFileTranslations(file, content))

\* the loop body from `if (!content) continue` on
FoldLoaded(cfg, store, file, content) ==
    IF ~Truthy(content)
    THEN [op |-> "skip", file |-> file, content |-> content, threw |-> FALSE,
          before |-> store, after |-> store]
    ELSE NamespaceBuilt(cfg, store, file, content, ModuleNameFor(cfg, file),
                        buildFileTranslations(file, content))

\* what the loop body does with `file` on store `store`
FoldBody(f, cfg, store, file) == FoldLoaded(cfg, store, file, loadTranslationFile(f, file))

\* the whole loop over `files` from store `store`: the store returned,
\* Undefined when an iteration throws
RECURSIVE FoldAll(_, _, _, _)
FoldNext(f, cfg, files, b) ==
    IF b.threw THEN Undefined ELSE FoldAll(f, cfg, b.after, Tail(files))

FoldAll(f, cfg, store, files) ==
    IF Len(files) = 0 THEN store
    ELSE FoldNext(f, cfg, files, FoldBody(f, cfg, store, Head(files)))

\* the outcome of a completed export, kept for the next one on the same filesystem
Remember(outcome) == IF Len(prev) < 2 THEN Append(prev, outcome) ELSE <<prev[2], outcome>>

\* the store is replaced by the merge's result; a TypeError leaves the call
FoldApply(b) ==
    /\ step' = b
    /\ IF b.threw
       THEN /\ pc' = "threw"
            /\ translations' = translations
            /\ prev' = Remember([threw |-> TRUE, store |-> Undefined])
       ELSE /\ pc' = "fold"
            /\ translations' = b.after
            /\ prev' = prev

FoldStep ==
    /\ pc = "fold"
    /\ Len(todo) > 0
    /\ FoldApply(FoldBody(fs, config, translations, Head(todo)))
    /\ todo' = Tail(todo)
    /\ UNCHANGED <<query, fs, config, globCache, pathsToScan, currentConfig>>

ExportReturn ==
    /\ pc = "fold"
    /\ Len(todo) = 0
    /\ pc' = "returned"
    /\ prev' = Remember([threw |-> FALSE, store |-> translations])
    /\ UNCHANGED <<query, fs, config, globCache, pathsToScan, todo, translations, step,
                   currentConfig>>

\* clearGlobCache()
ClearGlobCache ==
    /\ pc \in {"idle", "returned", "threw"}
    /\ globCache # <<>>
    /\ globCache' = <<>>
    /\ prev' = <<>>
    /\ UNCHANGED <<query, fs, config, pc, pathsToScan, todo, translations, step, currentConfig>>

(***************************************************************************)
(* translator.ts: the runtime.  currentConfig is the module's singleton;   *)
(* the module's import of virtual-laravel-translations is a promise whose  *)
(* callbacks run later (ImportResolves, ImportRejects).                    *)
(***************************************************************************)
InitialConfig == [locale |-> "en", fallbackLocale |-> "en", translations |-> EmptyObj]

UpperAlphabet == "ABCDEFGHIJKLMNOPQRSTUVWXYZ"

LowerAlphabet == "abcdefghijklmnopqrstuvwxyz"

LowerOf(c, i) == IF i = 0 THEN c ELSE SubSeq(LowerAlphabet, i, i)

\* String.prototype.toLowerCase
RECURSIVE toLowerCase(_)
toLowerCase(s) ==
    IF s = "" THEN ""
    ELSE LowerOf(SubSeq(s, 1, 1), IndexOf(UpperAlphabet, SubSeq(s, 1, 1)))
             \o toLowerCase(SubSeq(s, 2, Len(s)))

\* (t, i) => t && t[i] || null
ReduceStep(t, i) == IF Truthy(t) THEN TruthyOr(Get(t, i), Null) ELSE Null

RECURSIVE ReduceKey(_, _)
ReduceKey(t, parts) ==
    IF Len(parts) = 0 THEN t ELSE ReduceKey(ReduceStep(t, Head(parts)), Tail(parts))

getTranslation(key, locale, store) ==
    IF ~Truthy(Get(store, locale)) THEN Null
    ELSE ReduceKey(Get(store, locale), Split(key, {"."}))

\* the second lookup, in the fallback locale
WithFallback(key, translation, fallbackLocale, store) ==
    IF ~Truthy(translation) /\ fallbackLocale # ""
    THEN getTranslation(key, fallbackLocale, store)
    ELSE translation

\* translation ?? key
OrKey(translation, key) == IF translation.kind \in {"null", "undefined"} THEN Str(key) ELSE translation

\* translator(key, {}, false, cfg): translate leaves the value as it is when
\* there is nothing to replace and no plural to choose
translator(key, cfg) ==
    OrKey(WithFallback(key, getTranslation(key, toLowerCase(cfg.locale), cfg.translations),
                       toLowerCase(cfg.fallbackLocale), cfg.translations),
          key)

\* __(key), trans(key), t(key)
trans(key) == translator(key, currentConfig)

hasTranslation(key) ==
    getTranslation(key, currentConfig.locale, currentConfig.translations) # Null

(***************************************************************************)
(* The environment: the documents that may be on disk, the configurations  *)
(* exportTranslations is called with, and the bounds of the model.         *)
(***************************************************************************)
\* at most this many files are on disk at once
MaxFiles == 3

\* at most this many mergeNamespacedTranslations calls in a row (SpecMerge)
MaxMerges == 3

Obj2(k1, v1, k2, v2) == Obj([x \in {k1, k2} |-> IF x = k1 THEN v1 ELSE v2])

\* <<path, document>>: what the environment may write
FsOptions ==
    { <<"/w/lang/en.json",
        JsonDoc(Obj2("title", Str("T"), "messages", Obj2("conflict", Str("J"), "only", Str("j"))))>>,
      <<"/w/lang/en.json", JsonDoc(Str("abc"))>>,
      <<"/w/lang/en.json", JsonDoc(Obj2("modules", Prop("x", Str("m")), "title", Str("T2")))>>,
      <<"/w/lang/en.json", Garbage>>,
      <<"/w/lang/es.json", Unreadable>>,
      <<"/w/lang/pt_BR.json", JsonDoc(Prop("title", Str("Titulo")))>>,
      <<"/w/lang/composer.json", JsonDoc(Prop("require", Str("laravel")))>>,
      <<"/w/lang/en/messages.php", PhpReturning(<< <<"conflict", PString("P")>> >>)>>,
      <<"/w/lang/en/messages.php", PhpDoc(<<[node |-> TRUE, kind |-> "echo"]>>)>>,
      <<"/w/lang/en/php.php", PhpReturning(<< <<"a", PString("b")>> >>)>>,
      <<"/w/lang/en/admin/dash.php", PhpReturning(<< <<"hits", PString("h")>> >>)>>,
      <<"/w/lang/config/app.php", PhpReturning(<< <<"debug", PString("secret")>> >>)>>,
      <<"/w/lang/EN/auth.php", PhpReturning(<< <<"failed", PString("upper")>> >>)>>,
      <<"/w/mods/user/lang/en/messages.php", PhpReturning(<< <<"conflict", PString("U")>> >>)>>,
      <<"/w/mods/user/lang/config.json", JsonDoc(Prop("debugmode", Str("on")))>>,
      <<"/w/mods/shop/lang/en/messages.php", PhpReturning(<< <<"conflict", PString("S")>> >>)>> }

BaseConfig ==
    [langPath |-> "lang", additionalLangPaths |-> <<>>, namespaceModules |-> FALSE,
     excludePaths |-> NoList, locales |-> NoList, includeJson |-> TRUE, includePhp |-> TRUE,
     NODE_ENV |-> "production"]

Configs ==
    { BaseConfig,
      [BaseConfig EXCEPT !.additionalLangPaths = <<"mods/*/lang">>],
      [BaseConfig EXCEPT !.additionalLangPaths = <<"mods/*/lang">>, !.namespaceModules = TRUE,
                         !.NODE_ENV = "development"],
      [BaseConfig EXCEPT !.additionalLangPaths = <<"mods/[", "mods/user/lang">>,
                         !.namespaceModules = TRUE] }

WriteFile(options, bound) ==
    /\ pc = "idle"
    /\ Cardinality(DOMAIN fs) < bound
    /\ \E o \in options :
          /\ o[1] \notin DOMAIN fs
          /\ fs' = [p \in DOMAIN fs \cup {o[1]} |-> IF p = o[1] THEN o[2] ELSE fs[p]]
    /\ UNCHANGED <<query, config, globCache, pc, pathsToScan, todo, translations, step,
                   prev, currentConfig>>

Init ==
    /\ query = NoStep
    /\ fs = <<>>
    /\ config \in Configs
    /\ globCache = <<>>
    /\ pc = "idle"
    /\ pathsToScan = <<>>
    /\ todo = <<>>
    /\ translations = EmptyObj
    /\ step = NoStep
    /\ prev = <<>>
    /\ currentConfig = InitialConfig

Next ==
    \/ WriteFile(FsOptions, MaxFiles)
    \/ ExportStart({"idle"})
    \/ FoldStep
    \/ ExportReturn

Spec == Init /\ [][Next]_vars

(***************************************************************************)
(* SpecAdmit: isValidTranslationFile applied to paths and roots drawn from *)
(* the names below.                                                        *)
(***************************************************************************)
AdmitRoots == {"/w/lang", "/w/mods/user/lang"}

AdmitNames ==
    { "en.json", "pt_BR.json", "composer.json", "package.json", "english.json",
      "en.json.json", ".jsonen.json", "EN.json", "e.json", "en_us.json", "en",
      "sub/en.json", "en/en.json", "en/auth.php", "pt_BR/auth.php", "en/admin/dash.php",
      "en_US/validation.php", "auth.php", "en.php", "config/app.php", "EN/auth.php",
      "english/auth.php", "en/readme.txt", "en/notes.md" }

AdmitFiles == {r \o "/" \o n : r \in AdmitRoots, n \in AdmitNames}

AdmitLangPaths == {"lang", "/w/lang", "/w/lang/", "lang/../lang", "/w/mods/user/lang", "/w"}

Admit ==
    /\ query = NoStep
    /\ \E filePath \in AdmitFiles, langPath \in AdmitLangPaths :
          query' = [op |-> "admit", filePath |-> filePath, langPath |-> langPath,
                    result |-> isValidTranslationFile(filePath, langPath)]
    /\ UNCHANGED <<fs, config, globCache, pc, pathsToScan, todo, translations, step,
                   prev, currentConfig>>

InitAdmit ==
    /\ query = NoStep
    /\ fs = <<>>
    /\ config = BaseConfig
    /\ globCache = <<>>
    /\ pc = "idle"
    /\ pathsToScan = <<>>
    /\ todo = <<>>
    /\ translations = EmptyObj
    /\ step = NoStep
    /\ prev = <<>>
    /\ currentConfig = InitialConfig

NextAdmit == Admit

SpecAdmit == InitAdmit /\ [][NextAdmit]_vars

(***************************************************************************)
(* SpecMerge: mergeNamespacedTranslations called up to MaxMerges times, the *)
(* returned store threaded forward, on contributions drawn from the set    *)
(* below.                                                                  *)
(***************************************************************************)
MergeContributions ==
    { Prop("a", Str("1")),
      Obj2("a", Prop("x", Str("n")), "list", Arr(<<Str("p")>>)),
      Obj2("a", Prop("y", Str("o")), "list", Arr(<<Str("q"), Str("r")>>)),
      Prop("modules", Prop("user", Prop("k", Str("v")))),
      Prop("modules", Prop("user", Prop("k2", Str("w")))),
      Obj2("modules", Prop("x", Str("m")), "title", Str("T2")),
      Prop("modules", Str("hi")),
      Str("abc") }

MergeLocales == {"en", "es"}

MergeOutcome(store, contribution, locale, m) ==
    [op |-> "merge", locale |-> locale, contribution |-> contribution,
     threw |-> m.threw, before |-> store,
     after |-> m.result, existingAfter |-> m.existingAfter]

\* the caller keeps its store when the call throws
MergeApply(b) ==
    /\ step' = b
    /\ translations' = IF b.threw THEN b.before ELSE b.after

MergeCall ==
    /\ pc = "merging"
    /\ query.n < MaxMerges
    /\ \E contribution \in MergeContributions, locale \in MergeLocales :
          MergeApply(MergeOutcome(translations, contribution, locale,
                                  mergeNamespacedTranslations(translations, contribution, locale)))
    /\ query' = [op |-> "merges", n |-> query.n + 1]
    /\ UNCHANGED <<fs, config, globCache, pc, pathsToScan, todo, prev, currentConfig>>

InitMerge ==
    /\ query = [op |-> "merges", n |-> 0]
    /\ fs = <<>>
    /\ config = BaseConfig
    /\ globCache = <<>>
    /\ pc = "merging"
    /\ pathsToScan = <<>>
    /\ todo = <<>>
    /\ translations = EmptyObj
    /\ step = NoStep
    /\ prev = <<>>
    /\ currentConfig = InitialConfig

NextMerge == MergeCall

SpecMerge == InitMerge /\ [][NextMerge]_vars

(***************************************************************************)
(* SpecRerun: exportTranslations called again and again with one           *)
(* configuration; between calls the filesystem may change and the cache    *)
(* may be cleared.  prev holds the outcomes of the calls made since the    *)
(* last such change.                                                       *)
(***************************************************************************)
RerunOptions ==
    { <<"/w/lang/en.json", JsonDoc(Prop("title", Str("T")))>>,
      <<"/w/lang/en/messages.php", PhpReturning(<< <<"conflict", PString("P")>> >>)>>,
      <<"/w/mods/user/lang/en/messages.php", PhpReturning(<< <<"conflict", PString("U")>> >>)>>,
      <<"/w/mods/shop/lang/en/messages.php", PhpReturning(<< <<"conflict", PString("S")>> >>)>> }

RerunConfigs ==
    { [BaseConfig EXCEPT !.additionalLangPaths = <<"mods/*/lang">>],
      [BaseConfig EXCEPT !.additionalLangPaths = <<"mods/*/lang">>, !.NODE_ENV = "development"],
      [BaseConfig EXCEPT !.additionalLangPaths = <<"mods/*/lang">>, !.namespaceModules = TRUE,
                         !.NODE_ENV = "development"] }

\* a file is written or deleted while no call is running
ChangeFiles(options, bound) ==
    /\ pc \in {"idle", "returned", "threw"}
    /\ \/ /\ Cardinality(DOMAIN fs) < bound
          /\ \E o \in options :
                /\ o[1] \notin DOMAIN fs
                /\ fs' = [p \in DOMAIN fs \cup {o[1]} |-> IF p = o[1] THEN o[2] ELSE fs[p]]
       \/ \E gone \in DOMAIN fs : fs' = [p \in DOMAIN fs \ {gone} |-> fs[p]]
    /\ prev' = <<>>
    /\ UNCHANGED <<query, config, globCache, pc, pathsToScan, todo, translations, step,
                   currentConfig>>

InitRerun ==
    /\ query = NoStep
    /\ fs = <<>>
    /\ config \in RerunConfigs
    /\ globCache = <<>>
    /\ pc = "idle"
    /\ pathsToScan = <<>>
    /\ todo = <<>>
    /\ translations = EmptyObj
    /\ step = NoStep
    /\ prev = <<>>
    /\ currentConfig = InitialConfig

NextRerun ==
    \/ ChangeFiles(RerunOptions, MaxFiles)
    \/ ExportStart({"idle", "returned", "threw"})
    \/ FoldStep
    \/ ExportReturn
    \/ ClearGlobCache

SpecRerun == InitRerun /\ [][NextRerun]_vars

(***************************************************************************)
(* SpecResolve: resolveGlobPatterns called on pattern lists and options    *)
(* drawn from the sets below, while files appear on disk.                  *)
(***************************************************************************)
ResolveFiles ==
    { <<"/w/mods/user/lang/en.json", JsonDoc(EmptyObj)>>,
      <<"/w/mods/shop/lang/en.json", JsonDoc(EmptyObj)>>,
      <<"/w/mods/vendor/lang/en.json", JsonDoc(EmptyObj)>>,
      <<"/w/mods/docs/lang", Garbage>> }

ResolvePatterns ==
    { <<"mods/*/lang">>,
      <<"mods/user/lang", "mods/*/lang">>,
      <<"mods/vendor/lang", "mods/{shop,user}/lang">>,
      <<"mods/**/lang", "mods/[", "mods/none/lang">> }

ResolveOptions ==
    { [excludePaths |-> NoList],
      [excludePaths |-> [kind |-> "list", val |-> <<"**/shop/**">>]] }

\* a call of resolveGlobPatterns on the filesystem listed by d
ResolveOn(d) ==
    \E patterns \in ResolvePatterns, options \in ResolveOptions :
        step' = [op |-> "resolve", patterns |-> patterns, options |-> options,
                 result |-> resolveGlobPatterns(d, patterns, options), files |-> fs]

ResolveCall ==
    /\ pc = "idle"
    /\ ResolveOn(Disk(fs))
    /\ UNCHANGED <<query, fs, config, globCache, pc, pathsToScan, todo, translations,
                   prev, currentConfig>>

InitResolve ==
    /\ query = NoStep
    /\ fs = <<>>
    /\ config = BaseConfig
    /\ globCache = <<>>
    /\ pc = "idle"
    /\ pathsToScan = <<>>
    /\ todo = <<>>
    /\ translations = EmptyObj
    /\ step = NoStep
    /\ prev = <<>>
    /\ currentConfig = InitialConfig

NextResolve ==
    \/ WriteFile(ResolveFiles, MaxFiles)
    \/ ResolveCall

SpecResolve == InitResolve /\ [][NextResolve]_vars

(***************************************************************************)
(* SpecCache: resolveGlobPatternsWithCache called up to MaxCalls times on  *)
(* the (patterns, options) pairs below, with the cache on or off, while    *)
(* directories appear on disk and the cache is cleared now and then.  prev *)
(* remembers, for every pair, what the first cache-enabled call since the  *)
(* last clearGlobCache returned.                                           *)
(***************************************************************************)
\* at most this many resolveGlobPatternsWithCache calls
MaxCalls == 3

CacheFiles ==
    { <<"/w/mods/user/lang/en.json", JsonDoc(EmptyObj)>>,
      <<"/w/mods/shop/lang/en.json", JsonDoc(EmptyObj)>> }

CachedPairs ==
    { << <<"mods/*/lang">>, [excludePaths |-> NoList] >>,
      << <<"mods/*/lang">>, [excludePaths |-> [kind |-> "list", val |-> <<"**/shop/**">>]] >>,
      << <<"mods/user/lang">>, [excludePaths |-> NoList] >> }

\* what is remembered of the pair once a call with it returned `result`
Returned(known, pair, useCache, result) ==
    IF useCache /\ pair \notin DOMAIN known
    THEN [k \in DOMAIN known \cup {pair} |-> IF k = pair THEN result ELSE known[k]]
    ELSE known

\* the call returned r.result and left the cache r.cache
CachedApply(pair, useCache, r) ==
    /\ step' = [op |-> "cached", patterns |-> pair[1], options |-> pair[2],
                useCache |-> useCache, result |-> r.result, files |-> fs,
                cacheBefore |-> globCache, cacheAfter |-> r.cache, known |-> prev]
    /\ globCache' = r.cache
    /\ prev' = Returned(prev, pair, useCache, r.result)

\* a call of resolveGlobPatternsWithCache on the filesystem listed by d
CachedOn(d) ==
    \E pair \in CachedPairs, useCache \in BOOLEAN :
        CachedApply(pair, useCache,
                    resolveGlobPatternsWithCache(d, globCache, pair[1], pair[2], useCache))

CachedCall ==
    /\ pc = "idle"
    /\ query.n < MaxCalls
    /\ CachedOn(Disk(fs))
    /\ query' = [op |-> "calls", n |-> query.n + 1]
    /\ UNCHANGED <<fs, config, pc, pathsToScan, todo, translations, currentConfig>>

InitCache ==
    /\ query = [op |-> "calls", n |-> 0]
    /\ fs = <<>>
    /\ config = BaseConfig
    /\ globCache = <<>>
    /\ pc = "idle"
    /\ pathsToScan = <<>>
    /\ todo = <<>>
    /\ translations = EmptyObj
    /\ step = NoStep
    /\ prev = <<>>
    /\ currentConfig = InitialConfig

NextCache ==
    \/ WriteFile(CacheFiles, MaxFiles)
    \/ CachedCall
    \/ ClearGlobCache

SpecCache == InitCache /\ [][NextCache]_vars

(***************************************************************************)
(* vite.ts: the plugin's configuration and its change-relevance query, and *)
(* SpecRelevance: handleHotUpdate called on the files on disk.             *)
(***************************************************************************)
frameworkLangPath == "vendor/laravel/framework/src/Illuminate/Translation/lang"

\* the config object betterLaravelTranslator(options) keeps
PluginConfig(options) ==
    [options EXCEPT !.additionalLangPaths = <<frameworkLangPath>> \o @]

\* one iteration of the loop over config.additionalLangPaths
PatternCovers(normalizedFile, pattern) ==
    IF ~Includes(pattern, "*") /\ ~Includes(pattern, "?")
    THEN StartsWith(normalizedFile, resolve(pattern) \o sep)
    ELSE StartsWith(normalizedFile, resolve(Split(pattern, {"*"})[1]))

\* checkIfTranslationFile on the normalized path
IsRelevant(normalizedFile, cfg) ==
    IF ~EndsWith(normalizedFile, ".php") /\ ~EndsWith(normalizedFile, ".json") THEN FALSE
    ELSE \/ StartsWith(normalizedFile, resolve(cfg.langPath) \o sep)
         \/ \E i \in DOMAIN cfg.additionalLangPaths :
               PatternCovers(normalizedFile, cfg.additionalLangPaths[i])

checkIfTranslationFile(filePath, cfg) == IsRelevant(normalize(filePath), cfg)

\* the paths of allTranslationFiles of exportTranslations(cfg) on the
\* filesystem listed by d, the glob cache being empty
LoadedPaths(d, cfg) ==
    { x.path : x \in Range(ScanAll(d,
          <<[path |-> cfg.langPath, pattern |-> Undefined]>>
              \o ResolveAdditional(d, <<>>, cfg.additionalLangPaths, cfg.excludePaths, FALSE).paths,
          [includeJson |-> cfg.includeJson, includePhp |-> cfg.includePhp,
           locales |-> cfg.locales])) }

RelevanceFiles ==
    { <<"/w/lang/en.json", JsonDoc(Prop("title", Str("T")))>>,
      <<"/w/lang/notes.txt", Garbage>>,
      <<"/w/mods/user/lang/en/messages.php", PhpReturning(<< <<"conflict", PString("U")>> >>)>>,
      <<"/w/mods/shop/lang/en.json", JsonDoc(Prop("title", Str("S")))>>,
      <<"/w/other/en.json", JsonDoc(Prop("title", Str("O")))>> }

RelevanceConfigs ==
    { BaseConfig,
      [BaseConfig EXCEPT !.additionalLangPaths = <<"mods/user/lang">>],
      [BaseConfig EXCEPT !.additionalLangPaths = <<"mods/*/lang">>],
      [BaseConfig EXCEPT !.additionalLangPaths = <<"mods/**/lang">>, !.namespaceModules = TRUE],
      [BaseConfig EXCEPT !.additionalLangPaths = <<"mods/{user,shop}/lang">>],
      [BaseConfig EXCEPT !.additionalLangPaths = <<"mod?/*/lang">>] }

\* handleHotUpdate(ctx) for a file on disk: the glob cache is cleared and the
\* query decides whether the translations are rebuilt; `loaded` tells whether
\* an export with the plugin's config reads the file
HotUpdateOn(d, cfg) ==
    \E file \in DOMAIN fs :
        query' = [op |-> "relevant", file |-> file,
                  result |-> checkIfTranslationFile(file, cfg),
                  loaded |-> file \in LoadedPaths(d, cfg), cleared |-> globCache]

\* handleHotUpdate leaving the glob cache as it is
HotUpdate_KeepCache ==
    /\ pc = "idle"
    /\ HotUpdateOn(Disk(fs), PluginConfig(config))
    /\ globCache' = globCache
    /\ UNCHANGED <<fs, config, pc, pathsToScan, todo, translations, step, prev, currentConfig>>

HotUpdate ==
    /\ pc = "idle"
    /\ HotUpdateOn(Disk(fs), PluginConfig(config))
    /\ globCache' = <<>>
    /\ UNCHANGED <<fs, config, pc, pathsToScan, todo, translations, step, prev, currentConfig>>

InitRelevance ==
    /\ query = NoStep
    /\ fs = <<>>
    /\ config \in RelevanceConfigs
    /\ globCache = <<>>
    /\ pc = "idle"
    /\ pathsToScan = <<>>
    /\ todo = <<>>
    /\ translations = EmptyObj
    /\ step = NoStep
    /\ prev = <<>>
    /\ currentConfig = InitialConfig

NextRelevance ==
    \/ WriteFile(RelevanceFiles, MaxFiles)
    \/ HotUpdate

SpecRelevance == InitRelevance /\ [][NextRelevance]_vars

(***************************************************************************)
(* SpecModule: extractModuleName called on resource roots and patterns.    *)
(***************************************************************************)
ModuleRoots ==
    { "/w/mods/user/lang", "/w/mods/shop/lang", "/w/mods/admin/settings/lang",
      "/w/packages/vendor/package-name/resources/lang", "/w/lang",
      "/w/mods/user/lang/", "/other/mods/user/lang", "/w/mods/user/resources",
      "/w/mods/lang/user/lang", "/w/mods/lang", "mods/user/lang",
      "/w/mods/user/language", "/w/mods/lang/user/lang-old",
      "C:\\w\\mods\\admin\\settings\\lang" }

ModulePatterns ==
    { "mods/*/lang", "/w/mods/**/lang", "packages/*/*/resources/lang", "lang",
      "/w/mods/*/lang/", "mods/{user,shop}/lang", "mod?/*/lang", "mods/user/lang",
      "mods/*/resources", "mods/[su]*/lang", "mods/*/lang*",
      "C:\\w\\mods\\**\\lang" }

ExtractCall ==
    /\ pc = "idle"
    /\ \E fullPath \in ModuleRoots, basePath \in ModulePatterns :
          query' = [op |-> "module", fullPath |-> fullPath, basePath |-> basePath,
                    result |-> extractModuleName(fullPath, basePath)]
    /\ UNCHANGED <<fs, config, globCache, pc, pathsToScan, todo, translations, step,
                   prev, currentConfig>>

InitModule ==
    /\ query = NoStep
    /\ fs = <<>>
    /\ config = BaseConfig
    /\ globCache = <<>>
    /\ pc = "idle"
    /\ pathsToScan = <<>>
    /\ todo = <<>>
    /\ translations = EmptyObj
    /\ step = NoStep
    /\ prev = <<>>
    /\ currentConfig = InitialConfig

NextModule == ExtractCall

SpecModule == InitModule /\ [][NextModule]_vars

(***************************************************************************)
(* SpecNamespace: exportTranslations with module namespacing over two      *)
(* auxiliary patterns.                                                     *)
(***************************************************************************)
NamespaceFiles ==
    { <<"/w/lang/en/messages.php", PhpReturning(<< <<"conflict", PString("P")>> >>)>>,
      <<"/w/mods/user/lang/en/messages.php", PhpReturning(<< <<"conflict", PString("U")>> >>)>>,
      <<"/w/mods/user/lang/en.json", JsonDoc(Prop("title", Str("UT")))>>,
      <<"/w/mods/shop/lang/en/messages.php", PhpReturning(<< <<"conflict", PString("S")>> >>)>>,
      <<"/w/pkgs/user/lang/en/messages.php", PhpReturning(<< <<"conflict", PString("K")>> >>)>> }

NamespaceConfigs ==
    { [BaseConfig EXCEPT !.additionalLangPaths = <<"mods/*/lang">>, !.namespaceModules = TRUE],
      [BaseConfig EXCEPT !.additionalLangPaths = <<"mods/*/lang", "pkgs/*/lang">>,
                         !.namespaceModules = TRUE],
      [BaseConfig EXCEPT !.additionalLangPaths = <<"mods/*/lang", "pkgs/*/lang">>] }

InitNamespace ==
    /\ query = NoStep
    /\ fs = <<>>
    /\ config \in NamespaceConfigs
    /\ globCache = <<>>
    /\ pc = "idle"
    /\ pathsToScan = <<>>
    /\ todo = <<>>
    /\ translations = EmptyObj
    /\ step = NoStep
    /\ prev = <<>>
    /\ currentConfig = InitialConfig

NextNamespace ==
    \/ WriteFile(NamespaceFiles, MaxFiles)
    \/ ExportStart({"idle"})
    \/ FoldStep
    \/ ExportReturn

SpecNamespace == InitNamespace /\ [][NextNamespace]_vars

(***************************************************************************)
(* SpecOptions: exportTranslations with a locale allowlist and with one of *)
(* the two formats switched off.                                           *)
(***************************************************************************)
OptionsFiles ==
    { <<"/w/lang/en.json", JsonDoc(Prop("title", Str("T")))>>,
      <<"/w/lang/es.json", JsonDoc(Prop("title", Str("E")))>>,
      <<"/w/lang/fr.json", JsonDoc(Prop("title", Str("F")))>>,
      <<"/w/lang/en/messages.php", PhpReturning(<< <<"conflict", PString("P")>> >>)>>,
      <<"/w/lang/fr/messages.php", PhpReturning(<< <<"conflict", PString("Q")>> >>)>>,
      <<"/w/mods/user/lang/fr.json", JsonDoc(Prop("title", Str("UF")))>>,
      <<"/w/mods/user/lang/en/messages.php", PhpReturning(<< <<"conflict", PString("U")>> >>)>> }

OptionsConfigs ==
    { [BaseConfig EXCEPT !.locales = [kind |-> "list", val |-> <<"en", "es">>]],
      [BaseConfig EXCEPT !.locales = [kind |-> "list", val |-> <<"en">>], !.includePhp = FALSE],
      [BaseConfig EXCEPT !.includeJson = FALSE],
      [BaseConfig EXCEPT !.locales = [kind |-> "list", val |-> <<"en">>],
                         !.additionalLangPaths = <<"mods/*/lang">>,
                         !.namespaceModules = TRUE] }

InitOptions ==
    /\ query = NoStep
    /\ fs = <<>>
    /\ config \in OptionsConfigs
    /\ globCache = <<>>
    /\ pc = "idle"
    /\ pathsToScan = <<>>
    /\ todo = <<>>
    /\ translations = EmptyObj
    /\ step = NoStep
    /\ prev = <<>>
    /\ currentConfig = InitialConfig

NextOptions ==
    \/ WriteFile(OptionsFiles, MaxFiles)
    \/ ExportStart({"idle"})
    \/ FoldStep
    \/ ExportReturn

SpecOptions == InitOptions /\ [][NextOptions]_vars

(***************************************************************************)
(* SpecLoad: exportTranslations on disks holding files that do not load.   *)
(***************************************************************************)
LoadFiles ==
    { <<"/w/lang/en.json", Garbage>>,
      <<"/w/lang/en.json", JsonDoc(Prop("title", Str("T")))>>,
      <<"/w/lang/es.json", Unreadable>>,
      <<"/w/lang/pt_BR.json", JsonDoc(Prop("title", Str("Titulo")))>>,
      <<"/w/lang/en/messages.php", PhpDoc(<<[node |-> TRUE, kind |-> "echo"]>>)>>,
      <<"/w/lang/es/messages.php", PhpReturning(<< <<"conflict", PString("P")>> >>)>>,
      <<"/w/mods/user/lang/en.json", Garbage>>,
      <<"/w/mods/user/lang/fr/messages.php", Garbage>> }

LoadConfigs ==
    { BaseConfig,
      [BaseConfig EXCEPT !.additionalLangPaths = <<"mods/*/lang">>, !.namespaceModules = TRUE] }

InitLoad ==
    /\ query = NoStep
    /\ fs = <<>>
    /\ config \in LoadConfigs
    /\ globCache = <<>>
    /\ pc = "idle"
    /\ pathsToScan = <<>>
    /\ todo = <<>>
    /\ translations = EmptyObj
    /\ step = NoStep
    /\ prev = <<>>
    /\ currentConfig = InitialConfig

NextLoad ==
    \/ WriteFile(LoadFiles, MaxFiles)
    \/ ExportStart({"idle"})
    \/ FoldStep
    \/ ExportReturn

SpecLoad == InitLoad /\ [][NextLoad]_vars

(***************************************************************************)
(* SpecPhp: parsePhpFile called on documents returning a two-element array *)
(* literal whose values are of the forms below.                            *)
(***************************************************************************)
PCall(name) == [node |-> TRUE, kind |-> "call", what |-> name]

PVariable(name) == [node |-> TRUE, kind |-> "variable", name |-> name]

PName(name) == [node |-> TRUE, kind |-> "name", name |-> name]

PhpValues ==
    { PString("v"),
      [node |-> TRUE, kind |-> "number", value |-> Num(7)],
      [node |-> TRUE, kind |-> "boolean", value |-> [kind |-> "boolean", val |-> TRUE]],
      PArray(<<PEntry(PString("inner"), PString("w"))>>),
      PArray(<<PEntry(PString("inner"), PCall("trans"))>>),
      PBin(".", PString("a"), PString("b")),
      PBin("+", PString("a"), PString("b")),
      PCall("env"),
      PVariable("x"),
      PName("APP_NAME") }

PhpDocs == { PhpReturning(<< <<"first", v1>>, <<"second", v2>> >>) : v1, v2 \in PhpValues }

ParseCall ==
    /\ pc = "idle"
    /\ \E doc \in PhpDocs :
          query' = [op |-> "parse", doc |-> doc, result |-> parsePhpFile(doc)]
    /\ UNCHANGED <<fs, config, globCache, pc, pathsToScan, todo, translations, step,
                   prev, currentConfig>>

InitPhp ==
    /\ query = NoStep
    /\ fs = <<>>
    /\ config = BaseConfig
    /\ globCache = <<>>
    /\ pc = "idle"
    /\ pathsToScan = <<>>
    /\ todo = <<>>
    /\ translations = EmptyObj
    /\ step = NoStep
    /\ prev = <<>>
    /\ currentConfig = InitialConfig

NextPhp == ParseCall

SpecPhp == InitPhp /\ [][NextPhp]_vars

(***************************************************************************)
(* SpecRuntime: setTranslations, setLocale and lookups, interleaved with   *)
(* the completion of the module's import of the virtual module.  pc tells  *)
(* whether the import is still pending; prev holds the store the caller    *)
(* installed last with setTranslations.                                    *)
(***************************************************************************)
RuntimeStores ==
    { Obj2("en", Obj2("title", Str("T"), "messages", Prop("conflict", Str("P"))),
           "pt_BR", Prop("title", Str("Titulo"))),
      Prop("es", Obj2("title", Str("E"), "messages", Prop("conflict", Str("Q")))) }

\* module.default of virtual-laravel-translations
VirtualStore == Prop("en", Prop("title", Str("V")))

RuntimeLocales == {"en", "es", "pt_BR"}

RuntimeKeys == {"title", "messages.conflict", "messages", "absent"}

SetTranslations ==
    /\ \E store \in RuntimeStores :
          /\ currentConfig' = [currentConfig EXCEPT !.translations = store]
          /\ prev' = <<store>>
    /\ UNCHANGED <<query, fs, config, globCache, pc, pathsToScan, todo, translations, step>>

\* setLocale(locale) and setLocale(locale, fallbackLocale)
SetLocale ==
    /\ \E locale \in RuntimeLocales, fallbackLocale \in {"", "es"} :
          currentConfig' = [currentConfig EXCEPT
                               !.locale = locale,
                               !.fallbackLocale = IF fallbackLocale # "" THEN fallbackLocale ELSE @]
    /\ UNCHANGED <<query, fs, config, globCache, pc, pathsToScan, todo, translations, step, prev>>

\* a call of trans(key) and of hasTranslation(key)
LookupCall ==
    /\ \E key \in RuntimeKeys :
          query' = [op |-> "lookup", key |-> key, cfg |-> currentConfig,
                    result |-> trans(key), has |-> hasTranslation(key)]
    /\ UNCHANGED <<fs, config, globCache, pc, pathsToScan, todo, translations, step, prev,
                   currentConfig>>

\* the then-callback of import('virtual-laravel-translations')
ImportResolves ==
    /\ pc = "importing"
    /\ pc' = "imported"
    /\ currentConfig' = [currentConfig EXCEPT !.translations = VirtualStore]
    /\ UNCHANGED <<query, fs, config, globCache, pathsToScan, todo, translations, step, prev>>

\* the catch-callback: there is no virtual module
ImportRejects ==
    /\ pc = "importing"
    /\ pc' = "failed"
    /\ UNCHANGED <<query, fs, config, globCache, pathsToScan, todo, translations, step, prev,
                   currentConfig>>

InitRuntime ==
    /\ query = NoStep
    /\ fs = <<>>
    /\ config = BaseConfig
    /\ globCache = <<>>
    /\ pc = "importing"
    /\ pathsToScan = <<>>
    /\ todo = <<>>
    /\ translations = EmptyObj
    /\ step = NoStep
    /\ prev = <<>>
    /\ currentConfig = InitialConfig

NextRuntime ==
    \/ SetTranslations
    \/ SetLocale
    \/ LookupCall
    \/ ImportResolves
    \/ ImportRejects

SpecRuntime == InitRuntime /\ [][NextRuntime]_vars

(***************************************************************************)
(* SpecOrder: exportTranslations over a primary root and auxiliary roots   *)
(* that contribute the same key paths.                                     *)
(***************************************************************************)
OrderFiles ==
    { <<"/w/lang/en.json", JsonDoc(Obj2("title", Str("T"), "messages", Prop("conflict", Str("J"))))>>,
      <<"/w/lang/en/messages.php", PhpReturning(<< <<"conflict", PString("P")>> >>)>>,
      <<"/w/mods/user/lang/en/messages.php", PhpReturning(<< <<"conflict", PString("U")>> >>)>>,
      <<"/w/mods/shop/lang/en/messages.php", PhpReturning(<< <<"conflict", PString("S")>> >>)>>,
      <<"/w/pkgs/user/lang/en.json", JsonDoc(Prop("title", Str("K")))>>,
      <<"/w/mods/user/lang/en.json", JsonDoc(Obj2("modules", Prop("x", Str("m")), "title", Str("T2")))>> }

OrderConfigs ==
    { [BaseConfig EXCEPT !.additionalLangPaths = <<"pkgs/*/lang", "mods/*/lang">>],
      [BaseConfig EXCEPT !.additionalLangPaths = <<"mods/*/lang">>],
      [BaseConfig EXCEPT !.additionalLangPaths = <<"mods/user/lang", "pkgs/*/lang">>,
                         !.namespaceModules = TRUE] }

InitOrder ==
    /\ query = NoStep
    /\ fs = <<>>
    /\ config \in OrderConfigs
    /\ globCache = <<>>
    /\ pc = "idle"
    /\ pathsToScan = <<>>
    /\ todo = <<>>
    /\ translations = EmptyObj
    /\ step = NoStep
    /\ prev = <<>>
    /\ currentConfig = InitialConfig

NextOrder ==
    \/ WriteFile(OrderFiles, MaxFiles)
    \/ ExportStart({"idle"})
    \/ FoldStep
    \/ ExportReturn

SpecOrder == InitOrder /\ [][NextOrder]_vars

(***************************************************************************)
(* SpecPlugin: the Vite plugin's load and handleHotUpdate handlers called  *)
(* in any order while files are written and deleted.  The record of a load *)
(* tells whether the handler called before it was handleHotUpdate and      *)
(* which cache that call cleared.                                          *)
(***************************************************************************)
PluginFiles ==
    { <<"/w/lang/en.json", JsonDoc(Prop("title", Str("T")))>>,
      <<"/w/mods/user/lang/en.json", JsonDoc(Prop("title", Str("U")))>>,
      <<"/w/mods/shop/lang/en.json", JsonDoc(Prop("title", Str("S")))>> }

PluginOptions ==
    { [BaseConfig EXCEPT !.additionalLangPaths = <<"mods/*/lang">>, !.NODE_ENV = "development"],
      [BaseConfig EXCEPT !.additionalLangPaths = <<"mods/*/lang">>, !.namespaceModules = TRUE,
                         !.NODE_ENV = "development"] }

\* exportTranslations(config) once the additional patterns resolved to r
LoadResolved(d, cfg, r) ==
    /\ globCache' = r.cache
    /\ pathsToScan' = <<[path |-> cfg.langPath, pattern |-> Undefined]>> \o r.paths
    /\ translations' =
           FoldAll(fs, cfg, EmptyObj,
                   ScanAll(d, <<[path |-> cfg.langPath, pattern |-> Undefined]>> \o r.paths,
                           [includeJson |-> cfg.includeJson, includePhp |-> cfg.includePhp,
                            locales |-> cfg.locales]))
    /\ query' = [op |-> "load", files |-> fs, roots |-> r.paths,
                 afterHotUpdate |-> query.op = "relevant",
                 cleared |-> IF query.op = "relevant" THEN query.cleared ELSE <<>>]

LoadOn(d, cfg) ==
    LoadResolved(d, cfg, ResolveAdditional(d, globCache, cfg.additionalLangPaths,
                                           cfg.excludePaths, cfg.NODE_ENV = "development"))

\* load(RESOLVED_VIRTUAL_MODULE_ID)
PluginLoad ==
    /\ pc = "idle"
    /\ LoadOn(Disk(fs), PluginConfig(config))
    /\ UNCHANGED <<fs, config, pc, todo, step, prev, currentConfig>>

InitPlugin ==
    /\ query = NoStep
    /\ fs = <<>>
    /\ config \in PluginOptions
    /\ globCache = <<>>
    /\ pc = "idle"
    /\ pathsToScan = <<>>
    /\ todo = <<>>
    /\ translations = EmptyObj
    /\ step = NoStep
    /\ prev = <<>>
    /\ currentConfig = InitialConfig

NextPlugin ==
    \/ ChangeFiles(PluginFiles, MaxFiles)
    \/ PluginLoad
    \/ HotUpdate

SpecPlugin == InitPlugin /\ [][NextPlugin]_vars

(***************************************************************************)
(* Properties.  The definitions below state what is claimed of the program *)
(* in terms of its observable values; they are no part of the program.     *)
(***************************************************************************)
\* a locale tag: two lower-case letters, optionally followed by _ and two
\* upper-case letters
IsLocaleTag(s) ==
    /\ Len(s) \in {2, 5}
    /\ \A i \in 1..Len(s) :
          CASE i <= 2 -> Char(s, i) \in LowerChars
            [] i = 3  -> Char(s, i) = "_"
            [] OTHER  -> Char(s, i) \in UpperChars

\* the segments of a path below a root; a path that is not below the root
\* starts with ".."
SegmentsBelow(fileSegs, rootSegs) ==
    IF Len(fileSegs) >= Len(rootSegs) /\ SubSeq(fileSegs, 1, Len(rootSegs)) = rootSegs
    THEN SubSeq(fileSegs, Len(rootSegs) + 1, Len(fileSegs))
    ELSE <<"..">> \o fileSegs

WithoutExtension(name, ext) ==
    IF EndsWith(name, ext) THEN SubSeq(name, 1, Len(name) - Len(ext)) ELSE name

AdmissibleBelow(filePath, rel) ==
    \/ EndsWith(filePath, ".json") /\ Len(rel) = 1 /\ IsLocaleTag(WithoutExtension(rel[1], ".json"))
    \/ EndsWith(filePath, ".php") /\ Len(rel) >= 2 /\ IsLocaleTag(rel[1])

\* the admission rule as stated: <locale>.json directly in the root, or a .php
\* file below a directory of the root named like a locale
ClaimedAdmissible(filePath, langPath) ==
    AdmissibleBelow(filePath, SegmentsBelow(PathSegs(resolve(filePath)), PathSegs(resolve(langPath))))

\* the string leaves of a tree
RECURSIVE LeafValues(_)
LeafValues(v) ==
    IF v.kind = "object" THEN UNION {LeafValues(v.val[k]) : k \in DOMAIN v.val}
    ELSE IF v.kind = "array" THEN UNION {LeafValues(v.val[i]) : i \in DOMAIN v.val}
    ELSE IF v.kind = "string" THEN {v.val}
    ELSE {}

\* the key paths of a tree that end in a value that is no mapping
RECURSIVE LeafPaths(_)
LeafPaths(v) ==
    IF v.kind = "object"
    THEN UNION {{<<k>> \o path : path \in LeafPaths(v.val[k])} : k \in DOMAIN v.val}
    ELSE {<<>>}

\* the value at a key path, Undefined when the path leaves the tree
RECURSIVE At(_, _)
At(v, path) ==
    IF Len(path) = 0 THEN v
    ELSE IF v.kind = "object" /\ Head(path) \in DOMAIN v.val THEN At(v.val[Head(path)], Tail(path))
    ELSE Undefined

\* the tree at a key path, the empty tree when nothing is there yet
RECURSIVE TreeAt(_, _)
TreeAt(v, path) ==
    IF Len(path) = 0 THEN v
    ELSE IF Truthy(Get(v, Head(path))) THEN TreeAt(Get(v, Head(path)), Tail(path))
    ELSE EmptyObj

\* the merge rule as stated: two mappings merge key by key, anything else is
\* replaced by the new value, keys only in the old mapping stay
RECURSIVE ClaimedMerge(_, _)
ClaimedMerge(old, new) ==
    IF old.kind = "object" /\ new.kind = "object"
    THEN Obj([k \in DOMAIN old.val \cup DOMAIN new.val |->
                 IF k \notin DOMAIN new.val THEN old.val[k]
                 ELSE IF k \notin DOMAIN old.val THEN new.val[k]
                 ELSE ClaimedMerge(old.val[k], new.val[k])])
    ELSE new

\* what the document of a file holds once parsed
DocValue(doc) ==
    IF doc.form = "json" THEN doc.value
    ELSE IF doc.form = "php" THEN parsePhpFile(doc)
    ELSE Null

\* no scanned root admits the file
NonAdmissible(p) ==
    \A i \in DOMAIN pathsToScan : ~isValidTranslationFile(p, pathsToScan[i].path)

Keys(v) == DOMAIN OwnProps(v)

\* C1: isValidTranslationFile(filePath, langPath) is true exactly for
\* <locale>.json directly in langPath and for .php files below a directory
\* of langPath named like a locale; every other path is refused
C1_Admission ==
    query.op = "admit" => (query.result <=> ClaimedAdmissible(query.filePath, query.langPath))

C1_Witness ==
    /\ query.op = "admit"
    /\ query.filePath = "/w/lang/pt_BR/auth.php"
    /\ query.langPath = "lang"
    /\ query.result = TRUE

\* C2: every descriptor scanDirectory returns is admissible for its root, the
\* fold reads only such descriptors, and no string of a file that no scanned
\* root admits occurs in the returned store
C2_Whitelist ==
    /\ \A i \in DOMAIN todo : isValidTranslationFile(todo[i].path, todo[i].basePath)
    /\ (pc \in {"fold", "returned", "threw"} /\ step.op # "none")
           => isValidTranslationFile(step.file.path, step.file.basePath)
    /\ pc = "returned" =>
           \A p \in DOMAIN fs :
               NonAdmissible(p) => LeafValues(DocValue(fs[p])) \cap LeafValues(translations) = {}

C2_Witness ==
    /\ pc = "returned"
    /\ "/w/lang/composer.json" \in DOMAIN fs
    /\ "/w/mods/user/lang/config.json" \in DOMAIN fs
    /\ Len(pathsToScan) = 2
    /\ translations # EmptyObj

\* the tree a PHP file of the primary root gives below its locale
PrimaryPhpTree(q, dir) ==
    NestUnder(StripPhp(SubSeq(q, Len(dir) + 1, Len(q))), parsePhpFile(fs[q]))

\* the store holds the PHP value wherever <locale>.json and the PHP file q
\* both give a value
PhpValueKept(loc, jp, q, dir) ==
    (/\ jp \in DOMAIN fs
     /\ fs[jp].form = "json"
     /\ StartsWith(q, dir)
     /\ fs[q].form = "php"
     /\ Truthy(parsePhpFile(fs[q])))
    => \A path \in LeafPaths(PrimaryPhpTree(q, dir)) \cap LeafPaths(fs[jp].value) :
           At(translations.val[loc], path) = At(PrimaryPhpTree(q, dir), path)

\* C3: when <locale>.json and a PHP file under <locale>/ of one root give a
\* value at the same key path, the returned store holds the PHP value
C3_PhpWins ==
    (pc = "returned" /\ Len(pathsToScan) = 1) =>
        \A loc \in DOMAIN translations.val : \A q \in DOMAIN fs :
            PhpValueKept(loc, resolve(config.langPath) \o "/" \o loc \o ".json", q,
                         resolve(config.langPath) \o "/" \o loc \o "/")

\* a resource of the locale that itself contributes the top-level key k: a JSON
\* document with that key, a PHP file k.php directly in the locale directory
\* or a PHP file below its directory k/
ContributesKey(loc, k) ==
    \E p \in DOMAIN fs :
        \/ /\ EndsWith(p, "/" \o loc \o ".json")
           /\ fs[p].form = "json"
           /\ k \in Keys(fs[p].value)
        \/ /\ fs[p].form = "php"
           /\ \/ EndsWith(p, "/" \o loc \o "/" \o k \o ".php")
              \/ Includes(p, "/" \o loc \o "/" \o k \o "/")

\* C4 as stated: no locale tree of the returned store has a top-level key
\* named php or json
C4_NoFormatKeys ==
    pc = "returned" =>
        \A loc \in DOMAIN translations.val : Keys(translations.val[loc]) \cap {"php", "json"} = {}

\* C4: the pipeline adds no php or json wrapper: a locale tree has a top-level
\* key named php or json only when a merged resource of that locale itself
\* contributes that key
C4_OnlyContributedFormatKeys ==
    \A loc \in DOMAIN translations.val :
        \A k \in Keys(translations.val[loc]) \cap {"php", "json"} : ContributesKey(loc, k)

C4_Witness ==
    /\ pc = "returned"
    /\ "en" \in DOMAIN translations.val
    /\ "php" \in Keys(translations.val["en"])
    /\ "/w/lang/en/php.php" \in DOMAIN fs

\* where the placement rule puts a contribution
PlacedAt(locale, moduleName) ==
    IF config.namespaceModules /\ Truthy(moduleName)
    THEN <<locale, "modules", moduleName.val>>
    ELSE <<locale>>

\* C5: a contribution is merged directly under store[locale], or under
\* store[locale].modules[N] when namespacing is on and its root has module
\* name N
C5_Placement ==
    (pc \in {"fold", "returned"} /\ step.op = "merge" /\ ~step.threw) =>
        TreeAt(step.after, PlacedAt(step.file.locale, step.moduleName))
            = ClaimedMerge(TreeAt(step.before, PlacedAt(step.file.locale, step.moduleName)),
                           step.fileTranslations)

\* C6: mergeNamespacedTranslations leaves under store[locale] the deep merge
\* of the old tree and the contribution: mappings merge recursively, any other
\* value of the contribution replaces the old one, keys only in the old tree stay
C6_MergePrecedence ==
    (pc = "merging" /\ step.op = "merge") =>
        /\ ~step.threw
        /\ TreeAt(step.after, <<step.locale>>)
               = ClaimedMerge(TreeAt(step.before, <<step.locale>>), step.contribution)

\* C7: mergeNamespacedTranslations leaves the store passed in unchanged
C7_Pure ==
    (pc = "merging" /\ step.op = "merge") => step.existingAfter = step.before

\* C8: every key of the store is a locale tag, after every merge step and in
\* the returned store
C8_LocaleKeys == \A k \in DOMAIN translations.val : IsLocaleTag(k)

C8_Witness ==
    /\ pc = "returned"
    /\ DOMAIN translations.val = {"en", "pt_BR"}
    /\ "/w/lang/composer.json" \in DOMAIN fs

\* a failure condition of the taxonomy is present: a pattern the glob engine
\* rejects, a missing primary root, a file that cannot be read or parsed
FailurePresent ==
    \/ \E i \in DOMAIN config.additionalLangPaths : GlobThrows(config.additionalLangPaths[i])
    \/ \A p \in DOMAIN fs : ~StartsWith(p, resolve(config.langPath) \o "/")
    \/ \E p \in DOMAIN fs : ~Truthy(DocValue(fs[p]))

\* C9: under the failure conditions exportTranslations returns without throwing
C9_FailSoft == FailurePresent => pc # "threw"

\* C10: two calls in a row with one configuration on an unchanged filesystem
\* end alike, with the cache on or off and whatever the cache held
C10_Idempotent == Len(prev) = 2 => prev[1] = prev[2]

C10_Witness ==
    /\ Len(prev) = 2
    /\ config.NODE_ENV = "development"
    /\ prev[2].threw = FALSE
    /\ prev[2].store # EmptyObj
    /\ \E k \in DOMAIN globCache :
          globCache[k] # resolveGlobPatterns(Disk(fs), config.additionalLangPaths,
                                             [excludePaths |-> config.excludePaths])

\* a comes before b in the order of their characters' codes
RECURSIVE LexLess(_, _)
LexLess(a, b) ==
    IF b = "" THEN FALSE
    ELSE IF a = "" THEN TRUE
    ELSE IF CharCode(Char(a, 1)) # CharCode(Char(b, 1))
         THEN CharCode(Char(a, 1)) < CharCode(Char(b, 1))
    ELSE LexLess(SubSeq(a, 2, Len(a)), SubSeq(b, 2, Len(b)))

\* C11: what resolveGlobPatterns returns has no path twice, is in ascending
\* lexicographic order, and every entry is a directory
C11_SortedUnique ==
    step.op = "resolve" =>
        /\ \A i, j \in DOMAIN step.result : i < j => LexLess(step.result[i], step.result[j])
        /\ \A i \in DOMAIN step.result : step.result[i] \in DirsOf(DOMAIN step.files)

C11_Witness ==
    /\ step.op = "resolve"
    /\ step.patterns = <<"mods/user/lang", "mods/*/lang">>
    /\ step.result = <<"/w/mods/shop/lang", "/w/mods/user/lang">>
    /\ "/w/mods/docs/lang" \in DOMAIN step.files

\* the exclusion list in effect: the caller's, else node_modules, vendor and .git
ClaimedExcludes(options) ==
    IF options.excludePaths.kind = "undefined"
    THEN <<"**/node_modules/**", "**/vendor/**", "**/.git/**">>
    ELSE options.excludePaths.val

\* the directory name an exclusion pattern **/name/** stands for
ExcludedName(pattern) == SubSeq(pattern, 4, Len(pattern) - 3)

\* the path is an excluded directory or lies under one
UnderExcluded(path, excludes) ==
    \E i \in DOMAIN excludes : ExcludedName(excludes[i]) \in Range(PathSegs(path))

ResolvedNow == resolveGlobPatterns(Disk(step.files), step.patterns, step.options)

\* C13: with caching on, a call with a pair resolved earlier and not cleared
\* since returns what that resolution returned, and a call with a pair not
\* resolved since the last clearGlobCache returns the resolution against the
\* filesystem of now, whatever is cached for other pairs
C13_CacheByPair ==
    (step.op = "cached" /\ step.useCache) =>
        IF <<step.patterns, step.options>> \in DOMAIN step.known
        THEN step.result = step.known[<<step.patterns, step.options>>]
        ELSE step.result = ResolvedNow

\* a stale entry was returned although another pair was cached meanwhile
C13_Witness ==
    /\ step.op = "cached"
    /\ step.useCache
    /\ <<step.patterns, step.options>> \in DOMAIN step.known
    /\ Cardinality(DOMAIN step.known) >= 2
    /\ step.result # ResolvedNow

\* C14: with caching off the call returns the resolution against the
\* filesystem of now and leaves the cache as it was
C14_CacheOff ==
    (step.op = "cached" /\ ~step.useCache) =>
        /\ step.result = ResolvedNow
        /\ step.cacheAfter = step.cacheBefore

\* caching is off while the cache holds a stale entry for the very pair
C14_Witness ==
    /\ step.op = "cached"
    /\ ~step.useCache
    /\ <<step.patterns, step.options>> \in DOMAIN step.known
    /\ step.known[<<step.patterns, step.options>>] # step.result

\* C15: the change-relevance query answers true for every file that an
\* export with the same configuration loads
C15_NoFalseNegative ==
    (query.op = "relevant" /\ query.loaded) => query.result

\* the glob metacharacters of containsGlobCharacters
GlobChars == {"*", "?", "{", "}", "[", "]", "(", ")"}

RECURSIVE FirstGlobChar(_, _)
FirstGlobChar(pattern, i) ==
    IF i > Len(pattern) THEN 0
    ELSE IF Char(pattern, i) \in GlobChars THEN i
    ELSE FirstGlobChar(pattern, i + 1)

AnchorUpTo(pattern, i) == resolve(IF i = 0 THEN pattern ELSE SubSeq(pattern, 1, i - 1))

\* the pattern's anchor: its portion preceding the first glob metacharacter, as an absolute path
Anchor(pattern) == AnchorUpTo(pattern, FirstGlobChar(pattern, 1))

IsLangSegmentAt(root, i) ==
    OccursAt(root, "/lang", i) /\ (i + 5 > Len(root) \/ Char(root, i + 5) = "/")

RECURSIVE LastLangFrom(_, _)
LastLangFrom(root, i) ==
    IF i < 1 THEN 0
    ELSE IF IsLangSegmentAt(root, i) THEN i
    ELSE LastLangFrom(root, i - 1)

\* the index of the separator before the last segment lang of root, 0 when there is none
LastLangSegment(root) == LastLangFrom(root, Len(root) - 4)

PartBetween(root, anchor, langIndex) ==
    IF Len(anchor) >= langIndex THEN ""
    ELSE TrimTrailingSeps(TrimLeadingSeps(SubSeq(root, Len(anchor) + 1, langIndex - 1)))

ClaimedModule(root, anchor) ==
    IF ~StartsWith(root, anchor) THEN Null
    ELSE NonEmptyOrNull(PartBetween(root, anchor, LastLangSegment(root)))

\* C16: for a root with a lang segment, extractModuleName returns the part
\* of the root between the pattern's anchor and the last lang segment,
\* and null when the root does not begin with the anchor or the part is empty
C16_ModuleName ==
    (query.op = "module" /\ LastLangSegment(normalize(query.fullPath)) # 0)
        => query.result = ClaimedModule(normalize(query.fullPath), Anchor(query.basePath))

\* allTranslationFiles of the running or returned call
AllTranslationFiles ==
    ScanAll(Disk(fs), pathsToScan,
            [includeJson |-> config.includeJson, includePhp |-> config.includePhp,
             locales |-> config.locales])

\* the descriptors that load and are given a module name
NamedContributions ==
    { x \in Range(AllTranslationFiles) :
          Truthy(loadTranslationFile(fs, x)) /\ ModuleNameFor(config, x) # Null }

\* C17: in a returned export, contributions of two different auxiliary
\* directories that each yield a module name have different module names,
\* so they lie in different modules.<name> subtrees
C17_DifferentSubtrees ==
    pc = "returned" =>
        \A x, y \in NamedContributions :
            x.basePath # y.basePath => ModuleNameFor(config, x) # ModuleNameFor(config, y)

\* locale is in the allowlist of the configuration, or there is no allowlist
InAllowlist(locale) ==
    config.locales.kind = "undefined"
        \/ \E i \in DOMAIN config.locales.val : config.locales.val[i] = locale

DescriptorHonoursOptions(file) ==
    /\ InAllowlist(file.locale)
    /\ config.includePhp \/ file.type # "php"
    /\ config.includeJson \/ file.type # "json"

\* C18: every descriptor the scans returned is of an allowed locale and of
\* a format that is switched on, and every locale key of the store is in
\* the allowlist
C18_OptionsHonoured ==
    /\ \A i \in DOMAIN todo : DescriptorHonoursOptions(todo[i])
    /\ \A locale \in DOMAIN translations.val : InAllowlist(locale)

\* a returned export with allowlist <<"en">> and PHP switched off, on a disk
\* holding fr.json and en/messages.php: the store has the key en
C18_Witness ==
    /\ pc = "returned"
    /\ config.locales.kind = "list"
    /\ ~config.includePhp
    /\ {"/w/lang/fr.json", "/w/lang/en/messages.php", "/w/lang/en.json"} \subseteq DOMAIN fs
    /\ DOMAIN translations.val = {"en"}

\* C19: the contribution of a JSON file that is not namespaced is its
\* parsed content, and right after its merge every top-level key of the
\* content is at store[locale][k] with the content's value merged in
C19_JsonVerbatim ==
    (/\ pc \in {"fold", "returned"}
     /\ step.op = "merge"
     /\ step.file.type = "json"
     /\ ~Truthy(step.moduleName)
     /\ ~step.threw
     /\ step.content.kind = "object") =>
        /\ step.contribution = step.content
        /\ \A k \in Keys(step.content) :
              At(step.after, <<step.file.locale, k>>)
                  = ClaimedMerge(At(step.before, <<step.file.locale, k>>), step.content.val[k])

\* C20: the value under every locale key of the store is a mapping, after
\* every merge step and in the returned store
C20_LocaleTrees ==
    \A locale \in DOMAIN translations.val : translations.val[locale].kind = "object"

\* the store exportTranslations(cfg) returns on filesystem f with an empty
\* glob cache, Undefined when the call throws: ExportOf
ScanFor(d, cfg) ==
    ScanAll(d,
            <<[path |-> cfg.langPath, pattern |-> Undefined]>>
                \o ResolveAdditional(d, <<>>, cfg.additionalLangPaths, cfg.excludePaths, FALSE).paths,
            [includeJson |-> cfg.includeJson, includePhp |-> cfg.includePhp,
             locales |-> cfg.locales])

ExportOf(f, cfg) == FoldAll(f, cfg, EmptyObj, ScanFor(Disk(f), cfg))

Without(f, p) == [q \in DOMAIN f \ {p} |-> f[q]]

\* the descriptors of the call whose load yields null
FailedLoads == {x \in Range(AllTranslationFiles) : loadTranslationFile(fs, x) = Null}

\* C21: a resource whose load yields null contributes nothing: the returned
\* store is the one the export gives on the filesystem without the file,
\* and a locale whose resources all fail to load has no key in the store
C21_NullContributesNothing ==
    pc = "returned" =>
        /\ \A x \in FailedLoads : ExportOf(Without(fs, resolve(x.path)), config) = translations
        /\ \A x \in FailedLoads :
              (\A y \in Range(AllTranslationFiles) : y.locale = x.locale => y \in FailedLoads)
                  => x.locale \notin DOMAIN translations.val

\* a returned export on a disk with a malformed en.json and a loading
\* pt_BR.json: the store has the key pt_BR only
C21_Witness ==
    /\ pc = "returned"
    /\ "/w/lang/en.json" \in DOMAIN fs
    /\ fs["/w/lang/en.json"].form = "garbage"
    /\ "/w/lang/pt_BR.json" \in DOMAIN fs
    /\ DOMAIN translations.val = {"pt_BR"}

\* the glob pattern matches the root path
PatternMatches(root, pattern) ==
    \E ps \in PatternAlternatives(pattern, Cwd) : MatchSegs(ps, PathSegs(root), FALSE)

FirstMetacharIsNot(pattern, i, c) == i # 0 /\ Char(pattern, i) # c

\* C22: for a pattern whose first glob metacharacter is not * and a root the
\* pattern matches, extractModuleName returns the path between the anchor
\* (the pattern up to that metacharacter) and the lang segment
C22_AnchorAnyMetachar ==
    (/\ query.op = "module"
     /\ FirstMetacharIsNot(query.basePath, FirstGlobChar(query.basePath, 1), "*")
     /\ ~Includes(query.basePath, "[")
     /\ PatternMatches(normalize(query.fullPath), query.basePath))
        => query.result = ClaimedModule(normalize(query.fullPath), Anchor(query.basePath))

\* the module name ends where the segment lang at langIndex begins
EndsBeforeLang(root, langIndex, name) ==
    EndsWith(TrimTrailingSeps(SubSeq(root, 1, langIndex - 1)), name)

LangSegmentEnds(root, langIndex, result) ==
    IF langIndex = 0 THEN result = Null
    ELSE result # Null => EndsBeforeLang(root, langIndex, result.val)

\* C23: extractModuleName yields null for a root none of whose segments is
\* lang, and a module name it returns ends at the last whole segment lang
C23_WholeLangSegment ==
    query.op = "module" =>
        LangSegmentEnds(normalize(query.fullPath), LastLangSegment(normalize(query.fullPath)),
                        query.result)

IsSeparator(c) == c \in {"/", "\\"}

SlashSeparated(name) ==
    /\ ~Includes(name, "\\")
    /\ ~IsSeparator(Char(name, 1))
    /\ ~IsSeparator(Char(name, Len(name)))

\* C24: a module name extractModuleName returns has no backslash and
\* neither begins nor ends with a separator
C24_SlashOnly ==
    (query.op = "module" /\ query.result # Null) => SlashSeparated(query.result.val)

\* content under the keys, the first key outermost
RECURSIVE NestKeys(_, _)
NestKeys(keys, content) ==
    IF Len(keys) = 0 THEN content
    ELSE Prop(Head(keys), NestKeys(Tail(keys), content))

\* the segments with the extension .php taken off the last one
SegsWithoutPhp(segs) ==
    [i \in DOMAIN segs |-> IF i = Len(segs) THEN SubSeq(segs[i], 1, Len(segs[i]) - 4) ELSE segs[i]]

\* the key path of a PHP file: the segments of its path below its locale directory
KeyPathBelow(localeDir, path) ==
    SegsWithoutPhp(Split(SubSeq(path, Len(localeDir) + 2, Len(path)), {"/"}))

ClaimedPhpTree(localeDir, file, content) ==
    IF StartsWith(file.path, localeDir \o "/")
    THEN NestKeys(KeyPathBelow(localeDir, file.path), content)
    ELSE Undefined

\* C25: the contribution of a PHP file is its parsed content nested under
\* the directory segments of its path below the locale directory, then
\* under its filename without .php; the locale directory is no key
C25_PhpNesting ==
    (step.op = "merge" /\ step.file.type = "php") =>
        step.fileTranslations
            = ClaimedPhpTree(resolve(step.file.basePath) \o "/" \o step.file.locale,
                             step.file, step.content)

\* the file en/admin/dash.php of the primary root contributed { admin: { dash: content } }
C25_Witness ==
    /\ step.op = "merge"
    /\ step.file.path = "/w/lang/en/admin/dash.php"
    /\ step.fileTranslations = Prop("admin", Prop("dash", step.content))
    /\ Keys(step.content) = {"hits"}

\* an expression form the interpreter does not support: a call, a variable,
\* a constant, a binary expression that is no concatenation
Unsupported(expr) ==
    \/ expr.kind \in {"call", "variable", "name"}
    \/ expr.kind = "bin" /\ expr.type # "."

ElementAsClaimed(item, result) ==
    IF Unsupported(item.value)
    THEN item.key.value.val \notin Keys(result)
    ELSE /\ item.key.value.val \in Keys(result)
         /\ result.val[item.key.value.val] = parsePhpExpression(item.value)

\* the items of the array literal the document returns
ReturnedItems(doc) == doc.children[1].expr.items

\* C26: in the mapping interpreted from an array literal, an element whose
\* value is of an unsupported form has no entry, and every other element
\* has its interpreted value
C26_UnsupportedAbsent ==
    query.op = "parse" =>
        \A i \in DOMAIN ReturnedItems(query.doc) :
            ElementAsClaimed(ReturnedItems(query.doc)[i], query.result)

\* what the dotted key leads to under the tree of the configured locale
LeadsTo(cfg, key) == At(cfg.translations, <<cfg.locale>> \o Split(key, {"."}))

\* C27: with the locale set to a locale key of the installed store, a lookup
\* of a dotted key that leads to a string under that locale returns the
\* string, and hasTranslation is true exactly when the key leads to a value
C27_LookupFinds ==
    (query.op = "lookup" /\ query.cfg.locale \in Keys(query.cfg.translations)) =>
        /\ LeadsTo(query.cfg, query.key).kind = "string"
               => query.result = LeadsTo(query.cfg, query.key)
        /\ query.has <=> (query.result = LeadsTo(query.cfg, query.key))

\* C30: once the caller has installed a store with setTranslations, the
\* translations in effect are the store installed last
C30_ExplicitStays ==
    Len(prev) > 0 => currentConfig.translations = prev[1]

\* the position of the pattern among the configured auxiliary patterns
PatternIndex(pattern) ==
    CHOOSE i \in DOMAIN config.additionalLangPaths : config.additionalLangPaths[i] = pattern.val

\* the primary root first, then the roots of the patterns in configured
\* order, the roots of one pattern in ascending order
RootsInOrder ==
    /\ pathsToScan[1] = [path |-> config.langPath, pattern |-> Undefined]
    /\ \A i, j \in 2..Len(pathsToScan) :
          i < j => \/ PatternIndex(pathsToScan[i].pattern) < PatternIndex(pathsToScan[j].pattern)
                   \/ /\ pathsToScan[i].pattern = pathsToScan[j].pattern
                      /\ LexLess(pathsToScan[i].path, pathsToScan[j].path)

\* the position of the descriptor's root among the roots
RootIndex(x) ==
    CHOOSE i \in DOMAIN pathsToScan :
        pathsToScan[i].path = x.basePath /\ pathsToScan[i].pattern = x.pattern

\* the descriptors still to fold follow the root order
FoldInRootOrder ==
    \A a, b \in DOMAIN todo : a < b => RootIndex(todo[a]) <= RootIndex(todo[b])

Loads(x) == Truthy(loadTranslationFile(fs, x))

TreeOf(x) == buildFileTranslations(x, loadTranslationFile(fs, x))

\* the tree as it is handed to the merge
PlacedTree(x) == applyNamespacing(TreeOf(x), ModuleNameFor(config, x), config.namespaceModules)

IsPrefix(a, b) == Len(a) <= Len(b) /\ SubSeq(b, 1, Len(a)) = a

\* the descriptor contributes a value at the key path, above it or below it
Touches(x, path) ==
    Loads(x) /\ \E q \in LeafPaths(PlacedTree(x)) : IsPrefix(q, path) \/ IsPrefix(path, q)

\* every key path of the contribution of files[i] that no later descriptor of
\* the locale touches has that contribution's value in the store
LastWinsAt(files, i) ==
    (Loads(files[i]) /\ ~Truthy(ModuleNameFor(config, files[i]))) =>
        \A path \in LeafPaths(TreeOf(files[i])) :
            (\A j \in (i + 1)..Len(files) :
                 files[j].locale = files[i].locale => ~Touches(files[j], path))
                => At(translations, <<files[i].locale>> \o path) = At(TreeOf(files[i]), path)

LastWins(files) == \A i \in DOMAIN files : LastWinsAt(files, i)

\* C28: the roots are folded primary first, then pattern by pattern in
\* configured order and sorted within a pattern, and in the returned store
\* a key path contributed without a module name has the value of the
\* last-processed root that contributes it
C28_FoldOrder ==
    /\ pc \in {"fold", "returned"} => RootsInOrder /\ FoldInRootOrder
    /\ pc = "returned" => LastWins(AllTranslationFiles)

\* the roots the auxiliary patterns of the plugin's config resolve to on the
\* filesystem f, no cache being used
FreshRoots(f) ==
    ResolveAdditional(Disk(f), <<>>, PluginConfig(config).additionalLangPaths,
                      PluginConfig(config).excludePaths, FALSE).paths

=============================================================================
